---- MODULE Spec2Model ----
(***************************************************************************)
(* Model of the market-pulse core: Order (src/src/Order.cpp), OrderQueue   *)
(* (src/src/OrderQueue.cpp), OrderBook (src/src/OrderBook.cpp) and         *)
(* MatchingEngine (src/src/MatchingEngine.cpp).                            *)
(*                                                                         *)
(* Five specifications share the variables:                                *)
(*   SpecOrder  one Order object driven through fill / cancel /            *)
(*              modifyPrice / modifyQuantity;                              *)
(*   SpecQueue  one OrderQueue shared by producer, consumer and control    *)
(*              threads, with the mutex and the condition variable         *)
(*              modelled step by step;                                     *)
(*   SpecBook   one OrderBook with its public operations, each one atomic  *)
(*              under the book mutex;                                      *)
(*   SpecEngine the OrderBook operations beside one MatchingEngine thread  *)
(*              whose processOrder takes the book mutex once per book call; *)
(*   SpecSpread the OrderBook operations beside one thread in getSpread,   *)
(*              which takes the book mutex once per price it reads.        *)
(* The variables a specification does not use keep their initial value.    *)
(***************************************************************************)
EXTENDS Integers, Sequences, FiniteSets, TLC

VARIABLES
    order,          \* SpecOrder: the Order object (Order.h:116-123)
    m_queue,        \* OrderQueue::m_queue, front first
    m_shutdown,     \* OrderQueue::m_shutdown
    q_mutex,        \* owner of OrderQueue::m_mutex, NoThread when free
    waiters,        \* threads blocked inside m_condition.wait / wait_for
    pc,             \* position of every queue thread
    gotItem,        \* popWithTimeout's local gotItem, per consumer
    ret,            \* last value returned to every consumer
    nPushed,        \* pushes started, per producer
    pushed,         \* history: orders in the order they entered m_queue
    popped,         \* history: orders in the order they left m_queue
    cleared,        \* history: clear() has run
    shutdownDone,   \* history: a shutdown() call has returned
    m_orderMap,     \* OrderBook::m_orderMap, NoOrder where the id is absent
    m_bids,         \* OrderBook::m_bids, NoLevel where the price has no level
    m_asks,         \* OrderBook::m_asks
    nOps,           \* history: public operations called on the book so far
    epc,            \* position of the MatchingEngine thread in processOrder
    eOrder,         \* processOrder's argument (Order& order)
    eSnap,          \* matchBuyOrder's asks / matchSellOrder's bids snapshot
    eIdx,           \* index of the next snapshot entry of the range-for
    trades,         \* matchBuyOrder's / matchSellOrder's local trades vector
    eFilled0,       \* history: eOrder's filled quantity when the call began
    eConsumed,      \* history: resting quantity the call took off the book
    m_tradeCount,   \* MatchingEngine::m_tradeCount
    m_totalVolume,  \* MatchingEngine::m_totalVolume
    returnedCount,  \* history: trades in the vectors processOrder has returned
    returnedVolume, \* history: the sum of the quantities of those trades
    m_tradeCallbacks, \* MatchingEngine::m_tradeCallbacks, in registration order
    delivered,      \* history: the callback invocations <<callback, trade>> of
                    \* the latest processOrder call, in the order they ran
    b_mutex,        \* the thread that holds OrderBook::m_mutex, or NoThread
    cbIdx,          \* index of the next callback of notifyTrade's range-for
    spc,            \* position of the thread that calls getSpread
    sBid,           \* getSpread's local bid
    sRet,           \* the value getSpread returns
    sValid          \* history: the spreads of the book states during the call

orderVars == <<order>>
queueVars == <<m_queue, m_shutdown, q_mutex, waiters, pc, gotItem, ret,
               nPushed, pushed, popped, cleared, shutdownDone>>
bookVars  == <<m_orderMap, m_bids, m_asks>>
opVars == <<nOps>>
statVars == <<m_tradeCount, m_totalVolume, returnedCount, returnedVolume>>
lockVars == <<b_mutex, cbIdx>>
engineVars == <<epc, eOrder, eSnap, eIdx, trades, eFilled0, eConsumed,
                m_tradeCallbacks, delivered, statVars, lockVars>>
spreadVars == <<spc, sBid, sRet, sValid>>
vars == <<order, m_queue, m_shutdown, q_mutex, waiters, pc, gotItem, ret,
          nPushed, pushed, popped, cleared, shutdownDone,
          m_orderMap, m_bids, m_asks, nOps,
          epc, eOrder, eSnap, eIdx, trades, eFilled0, eConsumed,
          m_tradeCallbacks, delivered, b_mutex, cbIdx,
          m_tradeCount, m_totalVolume, returnedCount, returnedVolume,
          spc, sBid, sRet, sValid>>

----------------------------------------------------------------------------
(* Bounds of the model *)

\* largest quantity a caller passes (quantities are 0..MaxQty)
MaxQty == 2
\* largest quantity passed to the Order of SpecOrder
MaxOrderQty == 3
\* prices are 1..MaxPrice
MaxPrice == 2
\* order ids are 1..MaxId
MaxId == 3
\* order ids are 1..MaxEngineId where processOrder runs beside the other
\* operations
MaxEngineId == 2
\* public operations called on the book in one run
MaxOps == 4
\* Quantity is uint32_t (Common.h:24); TLC's integers are 32 bits wide, so the
\* wrap-around of Quantity arithmetic is modelled modulo QtyModulus instead of
\* 2^32, far above any sum of quantities the model reaches.
QtyModulus == 256

Prices == 1..MaxPrice
Ids == 1..MaxId
EngineIds == 1..MaxEngineId
Quantities == 0..MaxQty
Sides == {"BUY", "SELL"}
OrderTypes == {"LIMIT", "MARKET"}

Wrap(x) == x % QtyModulus

Min(a, b) == IF a < b THEN a ELSE b

----------------------------------------------------------------------------
(* Order: src/src/Order.cpp *)

\* Order::Order(id, side, type, price, quantity)
NewOrder(id, side, type, price, quantity) ==
    [id |-> id, side |-> side, type |-> type, price |-> price,
     quantity |-> quantity, filledQty |-> 0, status |-> "NEW"]

getRemainingQty(o) == Wrap(o.quantity - o.filledQty)

isActive(o) == o.status \in {"NEW", "OPEN", "PARTIAL"}

\* return value of Order::fill
fillOk(o, qty) == ~(qty > getRemainingQty(o))

\* the Order after Order::fill(qty), without the check against the remaining
\* quantity
fillUnchecked(o, qty) ==
    LET f == Wrap(o.filledQty + qty)
    IN  [o EXCEPT !.filledQty = f,
                  !.status = IF f = o.quantity THEN "FILLED"
                             ELSE IF f > 0 THEN "PARTIAL" ELSE @]

\* the Order after Order::fill(qty), were the status not updated
fillKeepsStatus(o, qty) ==
    IF qty > getRemainingQty(o)
    THEN o
    ELSE [o EXCEPT !.filledQty = Wrap(@ + qty)]

\* the Order after Order::fill(qty)
fill(o, qty) ==
    IF qty > getRemainingQty(o)
    THEN o
    ELSE LET f == Wrap(o.filledQty + qty)
         IN  [o EXCEPT !.filledQty = f,
                       !.status = IF f = o.quantity THEN "FILLED"
                                  ELSE IF f > 0 THEN "PARTIAL" ELSE @]

\* the Order after Order::cancel()
cancel(o) == IF isActive(o) THEN [o EXCEPT !.status = "CANCELLED"] ELSE o

\* return value of Order::modifyPrice
modifyPriceOk(o, newPrice) == ~(o.type # "LIMIT" \/ o.filledQty > 0)

\* the Order after Order::modifyPrice(newPrice)
modifyPrice(o, newPrice) ==
    IF o.type # "LIMIT" \/ o.filledQty > 0
    THEN o
    ELSE [o EXCEPT !.price = newPrice]

\* return value of Order::modifyQuantity
modifyQuantityOk(o, newQuantity) == ~(newQuantity < o.filledQty)

\* the Order after Order::modifyQuantity(newQuantity)
modifyQuantity(o, newQuantity) ==
    IF newQuantity < o.filledQty
    THEN o
    ELSE [o EXCEPT !.quantity = newQuantity,
                   !.status = IF o.filledQty = newQuantity THEN "FILLED" ELSE @]

----------------------------------------------------------------------------
(* OrderQueue: src/src/OrderQueue.cpp *)

\* producer threads; each pushes at most MaxPush orders
NumProducers == 1
\* consumer threads
NumConsumers == 2
MaxPush == 2

Producers == 1..NumProducers
Consumers == (NumProducers + 1)..(NumProducers + NumConsumers)
\* the thread that calls clear() and shutdown()
Controller == NumProducers + NumConsumers + 1
Threads == {Controller} \cup Producers \cup Consumers
\* m_mutex is free
NoThread == 0 - 1

\* std::nullopt
None == 0
\* the value read by m_queue.front() on an empty queue (undefined behaviour)
Garbage == 0 - 1
\* the k-th order pushed by producer p
Token(p, k) == p * 10 + k

\* the predicate of m_condition.wait / wait_for (OrderQueue.cpp:39, 74)
waitPredicate == m_queue # <<>> \/ m_shutdown

\* a waiter that left m_condition.wait goes on to re-acquire the mutex
Woken(p, w) == [p EXCEPT ![w] = IF @ = "pop_blocked" THEN "pop_relock"
                                ELSE "pwt_relock"]

\* m_queue.front() followed by m_queue.pop(), taking the back instead
takeBack(q) == IF q = <<>> THEN <<Garbage, <<>>>>
               ELSE <<q[Len(q)], SubSeq(q, 1, Len(q) - 1)>>

\* m_queue.front() followed by m_queue.pop(): <<order, rest>>
takeFront(q) == IF q = <<>> THEN <<Garbage, <<>>>> ELSE <<Head(q), Tail(q)>>

queueUnchanged == UNCHANGED <<order, bookVars, opVars, engineVars, spreadVars>>

\* push: the lock_guard block (OrderQueue.cpp:14-17)
push_locked(p) ==
    /\ pc[p] = "idle"
    /\ nPushed[p] < MaxPush
    /\ q_mutex = NoThread
    /\ m_queue' = Append(m_queue, Token(p, nPushed[p] + 1))
    /\ pushed' = Append(pushed, Token(p, nPushed[p] + 1))
    /\ nPushed' = [nPushed EXCEPT ![p] = @ + 1]
    /\ pc' = [pc EXCEPT ![p] = "push_notify"]
    /\ UNCHANGED <<m_shutdown, q_mutex, waiters, gotItem, ret, popped, cleared,
                   shutdownDone>>
    /\ queueUnchanged

\* the end of push, were it to notify nobody
push_notifyNobody(p) ==
    /\ pc[p] = "push_notify"
    /\ pc' = [pc EXCEPT ![p] = "idle"]
    /\ UNCHANGED <<m_queue, m_shutdown, q_mutex, waiters, gotItem, ret, nPushed,
                   pushed, popped, cleared, shutdownDone>>
    /\ queueUnchanged

\* push: m_condition.notify_one() (OrderQueue.cpp:19)
push_notify(p) ==
    /\ pc[p] = "push_notify"
    /\ \/ /\ waiters = {}
          /\ pc' = [pc EXCEPT ![p] = "idle"]
          /\ UNCHANGED waiters
       \/ \E w \in waiters :
             /\ waiters' = waiters \ {w}
             /\ pc' = [Woken(pc, w) EXCEPT ![p] = "idle"]
    /\ UNCHANGED <<m_queue, m_shutdown, q_mutex, gotItem, ret, nPushed, pushed,
                   popped, cleared, shutdownDone>>
    /\ queueUnchanged

\* pop: std::unique_lock lock(m_mutex) (OrderQueue.cpp:35)
pop_lock(c) ==
    /\ pc[c] = "idle"
    /\ q_mutex = NoThread
    /\ q_mutex' = c
    /\ pc' = [pc EXCEPT ![c] = "pop_pred"]
    /\ UNCHANGED <<m_queue, m_shutdown, waiters, gotItem, ret, nPushed, pushed,
                   popped, cleared, shutdownDone>>
    /\ queueUnchanged

\* pop: the predicate test of m_condition.wait (OrderQueue.cpp:38-40)
pop_pred(c) ==
    /\ pc[c] = "pop_pred"
    /\ pc' = [pc EXCEPT ![c] = IF waitPredicate THEN "pop_check" ELSE "pop_wait"]
    /\ UNCHANGED <<m_queue, m_shutdown, q_mutex, waiters, gotItem, ret, nPushed,
                   pushed, popped, cleared, shutdownDone>>
    /\ queueUnchanged

\* pop: m_condition.wait releases the mutex and blocks
pop_wait(c) ==
    /\ pc[c] = "pop_wait"
    /\ q_mutex' = NoThread
    /\ waiters' = waiters \cup {c}
    /\ pc' = [pc EXCEPT ![c] = "pop_blocked"]
    /\ UNCHANGED <<m_queue, m_shutdown, gotItem, ret, nPushed, pushed, popped,
                   cleared, shutdownDone>>
    /\ queueUnchanged

\* pop: m_condition.wait re-acquires the mutex after a wake-up
pop_relock(c) ==
    /\ pc[c] = "pop_relock"
    /\ q_mutex = NoThread
    /\ q_mutex' = c
    /\ pc' = [pc EXCEPT ![c] = "pop_pred"]
    /\ UNCHANGED <<m_queue, m_shutdown, waiters, gotItem, ret, nPushed, pushed,
                   popped, cleared, shutdownDone>>
    /\ queueUnchanged

\* the end of pop, were it to return none as soon as the flag is set
pop_checkFlagOnly(c) ==
    /\ pc[c] = "pop_check"
    /\ IF m_shutdown
       THEN /\ ret' = [ret EXCEPT ![c] = None]
            /\ UNCHANGED <<m_queue, popped>>
       ELSE /\ ret' = [ret EXCEPT ![c] = takeFront(m_queue)[1]]
            /\ m_queue' = takeFront(m_queue)[2]
            /\ popped' = Append(popped, takeFront(m_queue)[1])
    /\ q_mutex' = NoThread
    /\ pc' = [pc EXCEPT ![c] = "idle"]
    /\ UNCHANGED <<m_shutdown, waiters, gotItem, nPushed, pushed, cleared,
                   shutdownDone>>
    /\ queueUnchanged

\* pop: the shutdown test, front(), pop() and the return (OrderQueue.cpp:43-51)
pop_check(c) ==
    /\ pc[c] = "pop_check"
    /\ IF m_shutdown /\ m_queue = <<>>
       THEN /\ ret' = [ret EXCEPT ![c] = None]
            /\ UNCHANGED <<m_queue, popped>>
       ELSE /\ ret' = [ret EXCEPT ![c] = takeFront(m_queue)[1]]
            /\ m_queue' = takeFront(m_queue)[2]
            /\ popped' = Append(popped, takeFront(m_queue)[1])
    /\ q_mutex' = NoThread
    /\ pc' = [pc EXCEPT ![c] = "idle"]
    /\ UNCHANGED <<m_shutdown, waiters, gotItem, nPushed, pushed, cleared,
                   shutdownDone>>
    /\ queueUnchanged

\* tryPop (OrderQueue.cpp:54-65), one critical section
tryPop(c) ==
    /\ pc[c] = "idle"
    /\ q_mutex = NoThread
    /\ IF m_queue = <<>>
       THEN /\ ret' = [ret EXCEPT ![c] = None]
            /\ UNCHANGED <<m_queue, popped>>
       ELSE /\ ret' = [ret EXCEPT ![c] = takeFront(m_queue)[1]]
            /\ m_queue' = takeFront(m_queue)[2]
            /\ popped' = Append(popped, takeFront(m_queue)[1])
    /\ UNCHANGED <<m_shutdown, q_mutex, waiters, pc, gotItem, nPushed, pushed,
                   cleared, shutdownDone>>
    /\ queueUnchanged

\* popWithTimeout: std::unique_lock lock(m_mutex) (OrderQueue.cpp:68)
pwt_lock(c) ==
    /\ pc[c] = "idle"
    /\ q_mutex = NoThread
    /\ q_mutex' = c
    /\ pc' = [pc EXCEPT ![c] = "pwt_pred"]
    /\ UNCHANGED <<m_queue, m_shutdown, waiters, gotItem, ret, nPushed, pushed,
                   popped, cleared, shutdownDone>>
    /\ queueUnchanged

\* popWithTimeout: the predicate test of m_condition.wait_for, which returns
\* true as soon as the predicate holds (OrderQueue.cpp:71-75)
pwt_pred(c) ==
    /\ pc[c] = "pwt_pred"
    /\ IF waitPredicate
       THEN /\ gotItem' = [gotItem EXCEPT ![c] = TRUE]
            /\ pc' = [pc EXCEPT ![c] = "pwt_check"]
       ELSE /\ pc' = [pc EXCEPT ![c] = "pwt_wait"]
            /\ UNCHANGED gotItem
    /\ UNCHANGED <<m_queue, m_shutdown, q_mutex, waiters, ret, nPushed, pushed,
                   popped, cleared, shutdownDone>>
    /\ queueUnchanged

\* popWithTimeout: wait_for releases the mutex and blocks
pwt_wait(c) ==
    /\ pc[c] = "pwt_wait"
    /\ q_mutex' = NoThread
    /\ waiters' = waiters \cup {c}
    /\ pc' = [pc EXCEPT ![c] = "pwt_blocked"]
    /\ UNCHANGED <<m_queue, m_shutdown, gotItem, ret, nPushed, pushed, popped,
                   cleared, shutdownDone>>
    /\ queueUnchanged

\* popWithTimeout: the timeout elapses while the thread is blocked
pwt_timeout(c) ==
    /\ pc[c] = "pwt_blocked"
    /\ waiters' = waiters \ {c}
    /\ pc' = [pc EXCEPT ![c] = "pwt_relock_timeout"]
    /\ UNCHANGED <<m_queue, m_shutdown, q_mutex, gotItem, ret, nPushed, pushed,
                   popped, cleared, shutdownDone>>
    /\ queueUnchanged

\* popWithTimeout: wait_for re-acquires the mutex, after a wake-up or after
\* the timeout
pwt_relock(c) ==
    /\ pc[c] \in {"pwt_relock", "pwt_relock_timeout"}
    /\ q_mutex = NoThread
    /\ q_mutex' = c
    /\ pc' = [pc EXCEPT ![c] = IF @ = "pwt_relock" THEN "pwt_pred"
                                ELSE "pwt_timeout_pred"]
    /\ UNCHANGED <<m_queue, m_shutdown, waiters, gotItem, ret, nPushed, pushed,
                   popped, cleared, shutdownDone>>
    /\ queueUnchanged

\* the return of wait_for after the timeout, were it to report the timeout
\* without evaluating the predicate again
pwt_timeout_predFalse(c) ==
    /\ pc[c] = "pwt_timeout_pred"
    /\ gotItem' = [gotItem EXCEPT ![c] = FALSE]
    /\ pc' = [pc EXCEPT ![c] = "pwt_check"]
    /\ UNCHANGED <<m_queue, m_shutdown, q_mutex, waiters, ret, nPushed, pushed,
                   popped, cleared, shutdownDone>>
    /\ queueUnchanged

\* popWithTimeout: after the timeout wait_for returns the predicate's value
pwt_timeout_pred(c) ==
    /\ pc[c] = "pwt_timeout_pred"
    /\ gotItem' = [gotItem EXCEPT ![c] = waitPredicate]
    /\ pc' = [pc EXCEPT ![c] = "pwt_check"]
    /\ UNCHANGED <<m_queue, m_shutdown, q_mutex, waiters, ret, nPushed, pushed,
                   popped, cleared, shutdownDone>>
    /\ queueUnchanged

\* popWithTimeout: the test, front(), pop() and the return (OrderQueue.cpp:78-85)
pwt_check(c) ==
    /\ pc[c] = "pwt_check"
    /\ IF ~gotItem[c] \/ (m_shutdown /\ m_queue = <<>>)
       THEN /\ ret' = [ret EXCEPT ![c] = None]
            /\ UNCHANGED <<m_queue, popped>>
       ELSE /\ ret' = [ret EXCEPT ![c] = takeFront(m_queue)[1]]
            /\ m_queue' = takeFront(m_queue)[2]
            /\ popped' = Append(popped, takeFront(m_queue)[1])
    /\ q_mutex' = NoThread
    /\ gotItem' = [gotItem EXCEPT ![c] = FALSE]
    /\ pc' = [pc EXCEPT ![c] = "idle"]
    /\ UNCHANGED <<m_shutdown, waiters, nPushed, pushed, cleared, shutdownDone>>
    /\ queueUnchanged

\* a blocked thread leaves m_condition.wait / wait_for without a notification
\* (spurious wake-up, allowed by std::condition_variable)
spuriousWakeup(c) ==
    /\ c \in waiters
    /\ waiters' = waiters \ {c}
    /\ pc' = Woken(pc, c)
    /\ UNCHANGED <<m_queue, m_shutdown, q_mutex, gotItem, ret, nPushed, pushed,
                   popped, cleared, shutdownDone>>
    /\ queueUnchanged

\* clear, were it to reset the shutdown flag as well
clear_queueAndFlag ==
    /\ pc[Controller] = "idle"
    /\ q_mutex = NoThread
    /\ m_queue' = <<>>
    /\ m_shutdown' = FALSE
    /\ cleared' = TRUE
    /\ UNCHANGED <<q_mutex, waiters, pc, gotItem, ret, nPushed,
                   pushed, popped, shutdownDone>>
    /\ queueUnchanged

\* OrderQueue::clear (OrderQueue.cpp:102-106), one critical section
clear_queue ==
    /\ pc[Controller] = "idle"
    /\ q_mutex = NoThread
    /\ m_queue' = <<>>
    /\ cleared' = TRUE
    /\ UNCHANGED <<m_shutdown, q_mutex, waiters, pc, gotItem, ret, nPushed,
                   pushed, popped, shutdownDone>>
    /\ queueUnchanged

\* shutdown: m_shutdown.store(true), without the mutex (OrderQueue.cpp:113)
shutdown_store ==
    /\ pc[Controller] = "idle"
    /\ m_shutdown' = TRUE
    /\ pc' = [pc EXCEPT ![Controller] = "shutdown_notify"]
    /\ UNCHANGED <<m_queue, q_mutex, waiters, gotItem, ret, nPushed, pushed,
                   popped, cleared, shutdownDone>>
    /\ queueUnchanged

\* every waiter leaves m_condition.wait
WokenAll(p) == [t \in Threads |-> IF t \in waiters THEN Woken(p, t)[t] ELSE p[t]]

\* shutdown: m_condition.notify_all() and the return (OrderQueue.cpp:115-116)
shutdown_notify ==
    /\ pc[Controller] = "shutdown_notify"
    /\ waiters' = {}
    /\ pc' = [WokenAll(pc) EXCEPT ![Controller] = "idle"]
    /\ shutdownDone' = TRUE
    /\ UNCHANGED <<m_queue, m_shutdown, q_mutex, gotItem, ret, nPushed, pushed,
                   popped, cleared>>
    /\ queueUnchanged

\* OrderQueue::isShutdown (OrderQueue.h:128)
isShutdown == m_shutdown

\* OrderQueue::size
size == Len(m_queue)

----------------------------------------------------------------------------
(* The Order object of SpecOrder *)

orderUnchanged == UNCHANGED <<queueVars, bookVars, opVars, engineVars, spreadVars>>

Order_fill(qty) == order' = fill(order, qty) /\ orderUnchanged
Order_cancel == order' = cancel(order) /\ orderUnchanged
Order_modifyPrice(newPrice) == order' = modifyPrice(order, newPrice) /\ orderUnchanged
Order_modifyQuantity(newQuantity) ==
    order' = modifyQuantity(order, newQuantity) /\ orderUnchanged

----------------------------------------------------------------------------
(* OrderBook: src/src/OrderBook.cpp.  A book value b is the record of the   *)
(* three members; an Order* is modelled by the id of the order it points to *)

Book == [orderMap |-> m_orderMap, bids |-> m_bids, asks |-> m_asks]

\* what a pointer to a deleted Order reads
FreedOrder == [id |-> 0, side |-> "BUY", type |-> "LIMIT", price |-> 0,
               quantity |-> 0, filledQty |-> 0, status |-> "FREED"]

Deref(map, id) == IF id \in DOMAIN map THEN map[id] ELSE FreedOrder

\* m_bids for Side::BUY, m_asks for Side::SELL
sideOf(b, side) == IF side = "BUY" THEN b.bids ELSE b.asks
withSide(b, side, levels) ==
    IF side = "BUY" THEN [b EXCEPT !.bids = levels] ELSE [b EXCEPT !.asks = levels]

\* a map without entries
EmptyMap == [x \in {} |-> 0]

\* std::map::erase / unordered_map::erase
Erase(f, k) == [x \in DOMAIN f \ {k} |-> f[x]]
\* std::map::operator[] assignment
Put(f, k, v) == [x \in DOMAIN f \cup {k} |-> IF x = k THEN v ELSE f[x]]

\* index of the first occurrence of x in seq, 0 when absent (std::find)
IndexOf(seq, x) ==
    IF \E i \in 1..Len(seq) : seq[i] = x
    THEN CHOOSE i \in 1..Len(seq) : seq[i] = x /\ \A j \in 1..(i - 1) : seq[j] # x
    ELSE 0

\* std::list::erase at position i
EraseAt(seq, i) == SubSeq(seq, 1, i - 1) \o SubSeq(seq, i + 1, Len(seq))

\* PriceLevel::addOrder, were it to insert at the front of the list
PriceLevel_addOrderFront(level, o) ==
    [level EXCEPT !.orders = <<o.id>> \o @,
                  !.totalQuantity = Wrap(@ + getRemainingQty(o))]

\* PriceLevel::addOrder
PriceLevel_addOrder(level, o) ==
    [level EXCEPT !.orders = Append(@, o.id),
                  !.totalQuantity = Wrap(@ + getRemainingQty(o))]

\* PriceLevel::removeOrder
PriceLevel_removeOrder(level, o) ==
    LET i == IndexOf(level.orders, o.id)
    IN  IF i # 0
        THEN [level EXCEPT !.totalQuantity = Wrap(@ - getRemainingQty(o)),
                           !.orders = EraseAt(@, i)]
        ELSE level

\* PriceLevel::isEmpty
isEmpty(level) == level.orders = <<>>

\* OrderBook::addToBook(order)
addToBook(b, id) ==
    LET o == Deref(b.orderMap, id)
        levels == sideOf(b, o.side)
        level == IF o.price \in DOMAIN levels THEN levels[o.price]
                 ELSE [price |-> o.price, totalQuantity |-> 0, orders |-> <<>>]
    IN  withSide(b, o.side, Put(levels, o.price, PriceLevel_addOrder(level, o)))

\* removeFromBook, were it to keep a level that has become empty
removeFromBookKeepLevel(b, id) ==
    LET o == Deref(b.orderMap, id)
        levels == sideOf(b, o.side)
    IN  IF o.price \in DOMAIN levels
        THEN withSide(b, o.side,
                      Put(levels, o.price, PriceLevel_removeOrder(levels[o.price], o)))
        ELSE b

\* removeFromBook, were it to leave the order where it is
removeFromBookKeep(b, id) == b

\* OrderBook::removeFromBook(order)
removeFromBook(b, id) ==
    LET o == Deref(b.orderMap, id)
        levels == sideOf(b, o.side)
    IN  IF o.price \in DOMAIN levels
        THEN LET level == PriceLevel_removeOrder(levels[o.price], o)
             IN  IF isEmpty(level)
                 THEN withSide(b, o.side, Erase(levels, o.price))
                 ELSE withSide(b, o.side, Put(levels, o.price, level))
        ELSE b

\* OrderBook::addOrder: <<book, return value>>
addOrder(b, o) ==
    IF o.id \in DOMAIN b.orderMap
    THEN <<b, FALSE>>
    ELSE <<addToBook([b EXCEPT !.orderMap = Put(@, o.id, o)], o.id), TRUE>>

\* OrderBook::cancelOrder: <<book, return value>>
cancelOrder(b, orderId) ==
    IF orderId \notin DOMAIN b.orderMap THEN <<b, FALSE>>
    ELSE IF ~isActive(b.orderMap[orderId]) THEN <<b, FALSE>>
    ELSE LET b1 == removeFromBook(b, orderId)
         IN  <<[b1 EXCEPT !.orderMap[orderId] = cancel(@)], TRUE>>

\* modifyOrderPrice, were it not to put the order back when Order::modifyPrice
\* fails
modifyOrderPriceDropOnFail(b, orderId, newPrice) ==
    IF orderId \notin DOMAIN b.orderMap THEN <<b, FALSE>>
    ELSE IF ~isActive(b.orderMap[orderId]) THEN <<b, FALSE>>
    ELSE LET b1 == removeFromBook(b, orderId)
             ok == modifyPriceOk(b1.orderMap[orderId], newPrice)
             b2 == [b1 EXCEPT !.orderMap[orderId] = modifyPrice(@, newPrice)]
         IN  IF ok THEN <<addToBook(b2, orderId), TRUE>> ELSE <<b2, FALSE>>

\* OrderBook::modifyOrderPrice: <<book, return value>>
modifyOrderPrice(b, orderId, newPrice) ==
    IF orderId \notin DOMAIN b.orderMap THEN <<b, FALSE>>
    ELSE IF ~isActive(b.orderMap[orderId]) THEN <<b, FALSE>>
    ELSE LET b1 == removeFromBook(b, orderId)
             ok == modifyPriceOk(b1.orderMap[orderId], newPrice)
             b2 == [b1 EXCEPT !.orderMap[orderId] = modifyPrice(@, newPrice)]
         IN  <<addToBook(b2, orderId), ok>>

\* OrderBook::modifyOrderQuantity: <<book, return value>>
modifyOrderQuantity(b, orderId, newQuantity) ==
    IF orderId \notin DOMAIN b.orderMap THEN <<b, FALSE>>
    ELSE IF ~isActive(b.orderMap[orderId]) THEN <<b, FALSE>>
    ELSE LET o == b.orderMap[orderId]
             oldRemaining == getRemainingQty(o)
             o1 == modifyQuantity(o, newQuantity)
             newRemaining == getRemainingQty(o1)
             diff == Wrap(newRemaining - oldRemaining)
             levels == sideOf(b, o1.side)
             b1 == [b EXCEPT !.orderMap[orderId] = o1]
         IN  IF ~modifyQuantityOk(o, newQuantity) THEN <<b, FALSE>>
             ELSE IF o1.price \in DOMAIN levels
                  THEN <<withSide(b1, o1.side,
                             [levels EXCEPT ![o1.price].totalQuantity = Wrap(@ + diff)]),
                         TRUE>>
                  ELSE <<b1, TRUE>>

\* OrderBook::getQuantityAtPrice
getQuantityAtPrice(b, side, price) ==
    IF price \in DOMAIN sideOf(b, side)
    THEN sideOf(b, side)[price].totalQuantity
    ELSE 0

\* the while loop of fillQuantityAtPrice, taking the back of the list instead
\* of the front
RECURSIVE fillLoopBack(_, _, _, _)
fillLoopBack(map, level, filled, quantity) ==
    IF level.orders # <<>> /\ filled < quantity
    THEN LET n == Len(level.orders)
             id == level.orders[n]
             o == Deref(map, id)
             toFill == Min(getRemainingQty(o), Wrap(quantity - filled))
             o1 == fill(o, toFill)
             level1 == [level EXCEPT !.totalQuantity = Wrap(@ - toFill)]
         IN  IF getRemainingQty(o1) = 0
             THEN fillLoopBack(Erase(map, id),
                               [level1 EXCEPT !.orders = SubSeq(@, 1, n - 1)],
                               Wrap(filled + toFill), quantity)
             ELSE fillLoopBack(IF id \in DOMAIN map THEN [map EXCEPT ![id] = o1] ELSE map,
                               level1, Wrap(filled + toFill), quantity)
    ELSE [map |-> map, level |-> level, filled |-> filled]

\* the while loop of fillQuantityAtPrice (OrderBook.cpp:248-263, 276-291):
\* the order map, the level and the filled quantity when the loop ends
RECURSIVE fillLoop(_, _, _, _)
fillLoop(map, level, filled, quantity) ==
    IF level.orders # <<>> /\ filled < quantity
    THEN LET id == Head(level.orders)
             o == Deref(map, id)
             orderRemaining == getRemainingQty(o)
             toFill == Min(orderRemaining, Wrap(quantity - filled))
             o1 == fill(o, toFill)
             level1 == [level EXCEPT !.totalQuantity = Wrap(@ - toFill)]
         IN  IF getRemainingQty(o1) = 0
             THEN fillLoop(Erase(map, id), [level1 EXCEPT !.orders = Tail(@)],
                           Wrap(filled + toFill), quantity)
             ELSE fillLoop(IF id \in DOMAIN map THEN [map EXCEPT ![id] = o1] ELSE map,
                           level1, Wrap(filled + toFill), quantity)
    ELSE [map |-> map, level |-> level, filled |-> filled]

\* fillQuantityAtPrice, were it to report the requested quantity as filled
\* when the side has no level at the price
fillQuantityAtPriceNoFind(b, side, price, quantity) ==
    LET levels == sideOf(b, side)
    IN  IF price \notin DOMAIN levels
        THEN <<b, quantity>>
        ELSE LET r == fillLoop(b.orderMap, levels[price], 0, quantity)
                 b1 == [b EXCEPT !.orderMap = r.map]
             IN  IF r.level.totalQuantity = 0 \/ r.level.orders = <<>>
                 THEN <<withSide(b1, side, Erase(levels, price)), r.filled>>
                 ELSE <<withSide(b1, side, Put(levels, price, r.level)), r.filled>>

\* OrderBook::fillQuantityAtPrice: <<book, filled>>
fillQuantityAtPrice(b, side, price, quantity) ==
    LET levels == sideOf(b, side)
    IN  IF price \notin DOMAIN levels
        THEN <<b, 0>>
        ELSE LET r == fillLoop(b.orderMap, levels[price], 0, quantity)
                 b1 == [b EXCEPT !.orderMap = r.map]
             IN  IF r.level.totalQuantity = 0 \/ r.level.orders = <<>>
                 THEN <<withSide(b1, side, Erase(levels, price)), r.filled>>
                 ELSE <<withSide(b1, side, Put(levels, price, r.level)), r.filled>>

\* the keys of a std::map in iteration order: ascending for m_asks
\* (std::less), descending for m_bids (std::greater)
Ascending(S) ==
    [i \in 1..Cardinality(S) |->
        CHOOSE x \in S : Cardinality({y \in S : y < x}) = i - 1]

Descending(S) ==
    [i \in 1..Cardinality(S) |->
        CHOOSE x \in S : Cardinality({y \in S : y > x}) = i - 1]

\* the first n entries of a sequence
Take(seq, n) == SubSeq(seq, 1, Min(n, Len(seq)))

\* getTopBids, were m_bids iterated lowest price first
getTopBidsAscending(b, n) ==
    LET keys == Take(Ascending(DOMAIN b.bids), n)
    IN  [i \in 1..Len(keys) |-> <<keys[i], b.bids[keys[i]].totalQuantity>>]

\* OrderBook::getTopBids(n)
getTopBids(b, n) ==
    LET keys == Take(Descending(DOMAIN b.bids), n)
    IN  [i \in 1..Len(keys) |-> <<keys[i], b.bids[keys[i]].totalQuantity>>]

\* getTopAsks, were it to ignore n and return every level
getTopAsksAll(b, n) ==
    LET keys == Ascending(DOMAIN b.asks)
    IN  [i \in 1..Len(keys) |-> <<keys[i], b.asks[keys[i]].totalQuantity>>]

\* OrderBook::getTopAsks(n)
getTopAsks(b, n) ==
    LET keys == Take(Ascending(DOMAIN b.asks), n)
    IN  [i \in 1..Len(keys) |-> <<keys[i], b.asks[keys[i]].totalQuantity>>]

\* OrderBook::getBestBid / getBestAsk, NoPrice for std::nullopt
NoPrice == 0
getBestBid(b) == IF DOMAIN b.bids = {} THEN NoPrice ELSE Descending(DOMAIN b.bids)[1]
getBestAsk(b) == IF DOMAIN b.asks = {} THEN NoPrice ELSE Ascending(DOMAIN b.asks)[1]

\* OrderBook::getOrder, NoOrder for nullptr
NoOrder == NewOrder(0, "BUY", "LIMIT", 0, 0)
getOrder(b, orderId) == IF orderId \in DOMAIN b.orderMap THEN b.orderMap[orderId] ELSE NoOrder

\* OrderBook::getBidLevelCount / getAskLevelCount / getTotalOrderCount
getBidLevelCount(b) == Cardinality(DOMAIN b.bids)
getAskLevelCount(b) == Cardinality(DOMAIN b.asks)
getTotalOrderCount(b) == Cardinality(DOMAIN b.orderMap)

\* the value getSpread computes from the two prices it read
\* (OrderBook.cpp:213-216): <<>> for std::nullopt, <<x>> for the value x
spreadOf(bid, ask) == IF bid # NoPrice /\ ask # NoPrice THEN <<ask - bid>> ELSE <<>>

\* OrderBook::getSpread when no other thread changes the book between its two
\* reads (OrderBook.cpp:209-217)
getSpread(b) == spreadOf(getBestBid(b), getBestAsk(b))

\* OrderBook::clear
clear(b) == [orderMap |-> EmptyMap, bids |-> EmptyMap, asks |-> EmptyMap]

\* the sum of the remaining quantities of the orders a level's list holds
RECURSIVE SumRemaining(_, _)
SumRemaining(map, ids) ==
    IF ids = <<>> THEN 0
    ELSE getRemainingQty(Deref(map, Head(ids))) + SumRemaining(map, Tail(ids))

\* the remaining quantity resting on one side of the book
RECURSIVE SumLevels(_, _, _)
SumLevels(map, levels, prices) ==
    IF prices = {} THEN 0
    ELSE IF Cardinality(prices) = 1
    THEN LET p == CHOOSE x \in prices : TRUE
         IN  SumRemaining(map, levels[p].orders)
    ELSE LET lower == {p \in prices :
                          Cardinality({q \in prices : q < p}) < Cardinality(prices) \div 2}
         IN  SumLevels(map, levels, lower) + SumLevels(map, levels, prices \ lower)

RestingQuantity(b, side) == SumLevels(b.orderMap, sideOf(b, side), DOMAIN sideOf(b, side))

----------------------------------------------------------------------------
(* The public OrderBook operations as actions; each holds m_mutex from      *)
(* entry to return, so each is one step.                                    *)

\* the book becomes b; a getSpread call in progress has one more book state
\* in its duration
setBook(b) ==
    /\ m_orderMap' = b.orderMap
    /\ m_bids' = b.bids
    /\ m_asks' = b.asks
    /\ sValid' = IF spc = "ask"
                 THEN sValid \cup {spreadOf(getBestBid(b), getBestAsk(b))}
                 ELSE sValid

bookUnchanged == UNCHANGED <<order, queueVars, spc, sBid, sRet>>

\* one more public operation is called
countOp == nOps < MaxOps /\ nOps' = nOps + 1

Book_addOrder(o) ==
    /\ countOp
    /\ setBook(addOrder(Book, o)[1])
    /\ UNCHANGED engineVars /\ bookUnchanged

Book_cancelOrder(orderId) ==
    /\ countOp
    /\ setBook(cancelOrder(Book, orderId)[1])
    /\ UNCHANGED engineVars /\ bookUnchanged

Book_modifyOrderPrice(orderId, newPrice) ==
    /\ countOp
    /\ setBook(modifyOrderPrice(Book, orderId, newPrice)[1])
    /\ UNCHANGED engineVars /\ bookUnchanged

Book_modifyOrderQuantity(orderId, newQuantity) ==
    /\ countOp
    /\ setBook(modifyOrderQuantity(Book, orderId, newQuantity)[1])
    /\ UNCHANGED engineVars /\ bookUnchanged

Book_fillQuantityAtPrice(side, price, quantity) ==
    /\ countOp
    /\ setBook(fillQuantityAtPrice(Book, side, price, quantity)[1])
    /\ UNCHANGED engineVars /\ bookUnchanged

Book_clear ==
    /\ countOp
    /\ setBook(clear(Book))
    /\ UNCHANGED engineVars /\ bookUnchanged

\* OrderBook::getSpread takes no lock itself: getBestBid and getBestAsk take
\* the book mutex one after the other (OrderBook.cpp:209-217), so it is one
\* step per call.

\* auto bid = getBestBid()
getSpread_bid ==
    /\ spc = "idle"
    /\ countOp
    /\ spc' = "ask"
    /\ sBid' = getBestBid(Book)
    /\ sValid' = {spreadOf(getBestBid(Book), getBestAsk(Book))}
    /\ UNCHANGED <<order, queueVars, bookVars, engineVars, sRet>>

\* auto ask = getBestAsk() and the computation of the result
getSpread_ask ==
    /\ spc = "ask"
    /\ spc' = "done"
    /\ sRet' = spreadOf(sBid, getBestAsk(Book))
    /\ UNCHANGED <<order, queueVars, bookVars, opVars, engineVars, sBid, sValid>>

\* the caller has the result
getSpread_return ==
    /\ spc = "done"
    /\ spc' = "idle"
    /\ sBid' = NoPrice
    /\ sRet' = <<>>
    /\ sValid' = {}
    /\ UNCHANGED <<order, queueVars, bookVars, opVars, engineVars>>

----------------------------------------------------------------------------
(* MatchingEngine: src/src/MatchingEngine.cpp.  processOrder holds the book *)
(* mutex only inside each OrderBook call it makes, so it is one step per    *)
(* call: the snapshot, one fillQuantityAtPrice per loop iteration, and the  *)
(* final addOrder.  Other threads' book operations interleave between them. *)

\* the bound on the levels matchBuyOrder / matchSellOrder snapshot
SnapshotDepth == 100

\* the callbacks a caller may register
MaxCallbacks == 2
CallbackIds == 1..MaxCallbacks

\* MatchingEngine::onTrade (MatchingEngine.cpp:63-65).  m_tradeCallbacks has
\* no lock: the registration is taken between processOrder calls
onTrade(cb) ==
    /\ epc = "idle"
    /\ Len(m_tradeCallbacks) < MaxCallbacks
    /\ m_tradeCallbacks' = Append(m_tradeCallbacks, cb)
    /\ UNCHANGED <<epc, eOrder, eSnap, eIdx, trades, eFilled0, eConsumed, delivered>>
    /\ UNCHANGED <<statVars, lockVars>>
    /\ UNCHANGED <<bookVars, opVars, sValid>>
    /\ bookUnchanged

\* notifyTrade, were it to run the callbacks last registered first
notifyTradeReversed(callbacks, trade) ==
    [i \in 1..Len(callbacks) |-> <<callbacks[Len(callbacks) + 1 - i], trade>>]

\* MatchingEngine::notifyTrade (MatchingEngine.cpp:178-182): the invocations
\* it makes, in order
notifyTrade(callbacks, trade) ==
    [i \in 1..Len(callbacks) |-> <<callbacks[i], trade>>]

opposite(side) == IF side = "BUY" THEN "SELL" ELSE "BUY"

\* the Trade, were it to carry the incoming order's id on both sides
NewTradeBothIds(o, price, quantity) ==
    [buyOrderId |-> o.id, sellOrderId |-> o.id, price |-> price, quantity |-> quantity]

\* the Trade matchBuyOrder / matchSellOrder builds
NewTrade(o, price, quantity) ==
    [buyOrderId |-> IF o.side = "BUY" THEN o.id ELSE 0,
     sellOrderId |-> IF o.side = "BUY" THEN 0 ELSE o.id,
     price |-> price, quantity |-> quantity]

\* the range-for, were it to break at the limit price itself as well
loopContinuesStrict ==
    /\ eIdx <= Len(eSnap)
    /\ getRemainingQty(eOrder) # 0
    /\ ~(/\ eOrder.type = "LIMIT"
         /\ IF eOrder.side = "BUY" THEN eSnap[eIdx][1] >= eOrder.price
                                    ELSE eSnap[eIdx][1] <= eOrder.price)

\* the range-for, were it without the break on the limit price
loopContinuesAnyPrice ==
    /\ eIdx <= Len(eSnap)
    /\ getRemainingQty(eOrder) # 0

\* the range-for of matchBuyOrder / matchSellOrder goes on with entry eIdx:
\* the snapshot is not exhausted and neither break is taken
\* (MatchingEngine.cpp:77-84, 122-129)
loopContinues ==
    /\ eIdx <= Len(eSnap)
    /\ getRemainingQty(eOrder) # 0
    /\ ~(/\ eOrder.type = "LIMIT"
         /\ IF eOrder.side = "BUY" THEN eSnap[eIdx][1] > eOrder.price
                                    ELSE eSnap[eIdx][1] < eOrder.price)

\* processOrder is called and matchBuyOrder / matchSellOrder takes its
\* snapshot (MatchingEngine.cpp:37-45, 75, 120)
processOrder_begin(o) ==
    /\ epc = "idle"
    /\ countOp
    /\ epc' = "match"
    /\ eOrder' = o
    /\ eSnap' = IF o.side = "BUY" THEN getTopAsks(Book, SnapshotDepth)
                                  ELSE getTopBids(Book, SnapshotDepth)
    /\ eIdx' = 1
    /\ trades' = <<>>
    /\ eFilled0' = o.filledQty
    /\ eConsumed' = 0
    /\ delivered' = <<>>
    /\ UNCHANGED <<m_tradeCallbacks, statVars, lockVars>>
    /\ UNCHANGED <<bookVars, sValid>> /\ bookUnchanged

\* m_totalVolume, were every trade to count as one unit
addVolumeOne(total, actualFilled) == Wrap(total + 1)

\* m_totalVolume += actualFilled (MatchingEngine.cpp:107, 152)
addVolume(total, actualFilled) == Wrap(total + actualFilled)

\* the sum of the quantities of a trades vector
RECURSIVE SumTrades(_)
SumTrades(ts) ==
    IF ts = <<>> THEN 0
    ELSE IF Len(ts) = 1 THEN ts[1].quantity
    ELSE LET h == Len(ts) \div 2
         IN  SumTrades(SubSeq(ts, 1, h)) + SumTrades(SubSeq(ts, h + 1, Len(ts)))

\* the quantity applied to the incoming order, were it the requested one
appliedRequested(matchQty, actualFilled) == matchQty

\* the quantity applied to the incoming order (MatchingEngine.cpp:94, 139)
applied(matchQty, actualFilled) == actualFilled

\* the test, were it to skip no iteration
skipsTradeNever(actualFilled) == FALSE

\* if (actualFilled == 0) continue; (MatchingEngine.cpp:91, 136)
skipsTrade(actualFilled) == actualFilled = 0

\* one iteration of the range-for (MatchingEngine.cpp:86-110, 131-155)
match_level ==
    /\ epc = "match"
    /\ loopContinues
    /\ LET price == eSnap[eIdx][1]
           matchQty == Min(getRemainingQty(eOrder), eSnap[eIdx][2])
           r == fillQuantityAtPrice(Book, opposite(eOrder.side), price, matchQty)
           actualFilled == r[2]
       IN  /\ setBook(r[1])
           /\ eConsumed' = eConsumed + RestingQuantity(Book, opposite(eOrder.side))
                                     - RestingQuantity(r[1], opposite(eOrder.side))
           /\ IF skipsTrade(actualFilled)
              THEN UNCHANGED <<eOrder, trades, delivered, m_tradeCount, m_totalVolume>>
              ELSE /\ eOrder' = fill(eOrder, applied(matchQty, actualFilled))
                   /\ trades' = Append(trades, NewTrade(eOrder, price, actualFilled))
                   /\ m_tradeCount' = m_tradeCount + 1
                   /\ m_totalVolume' = addVolume(m_totalVolume, actualFilled)
                   /\ delivered' = delivered \o
                         notifyTrade(m_tradeCallbacks,
                                     NewTrade(eOrder, price, actualFilled))
    /\ eIdx' = eIdx + 1
    /\ UNCHANGED <<epc, eSnap, eFilled0, nOps, m_tradeCallbacks, returnedCount,
                   returnedVolume, lockVars>>
    /\ bookUnchanged

\* the condition, were it to hold for no order
restsNever(o) == FALSE

\* the condition, were it without the test of the order type
restsAnyType(o) == getRemainingQty(o) > 0

\* the condition under which processOrder adds the order to the book
\* (MatchingEngine.cpp:48)
restsAfterMatch(o) == getRemainingQty(o) > 0 /\ o.type = "LIMIT"

\* the loop is over: the remainder of a LIMIT order is added to the book and
\* processOrder returns (MatchingEngine.cpp:47-52)
processOrder_finish ==
    /\ epc = "match"
    /\ ~loopContinues
    /\ IF restsAfterMatch(eOrder)
       THEN setBook(addOrder(Book, eOrder)[1])
       ELSE UNCHANGED <<bookVars, sValid>>
    /\ epc' = "idle"
    /\ eOrder' = NewOrder(0, "BUY", "LIMIT", 0, 0)
    /\ eSnap' = <<>>
    /\ eIdx' = 1
    /\ trades' = <<>>
    /\ eFilled0' = 0
    /\ eConsumed' = 0
    /\ returnedCount' = returnedCount + Len(trades)
    /\ returnedVolume' = returnedVolume + SumTrades(trades)
    /\ UNCHANGED <<nOps, m_tradeCallbacks, delivered, m_tradeCount, m_totalVolume,
                   lockVars>>
    /\ bookUnchanged

\* the thread that calls processOrder
EngineThread == Controller + 1

\* the lock_guard of fillQuantityAtPrice, were it to outlive the call
lockAfterFillHeld(holder) == holder

\* OrderBook::m_mutex when fillQuantityAtPrice has returned: the lock_guard
\* is a local of the function (OrderBook.cpp:237)
lockAfterFill(holder) == NoThread

\* an iteration of the range-for enters fillQuantityAtPrice, whose lock_guard
\* takes m_mutex; std::mutex is not recursive (OrderBook.h:194,
\* OrderBook.cpp:236-237)
fill_lock ==
    /\ epc = "match"
    /\ loopContinues
    /\ b_mutex = NoThread
    /\ b_mutex' = EngineThread
    /\ epc' = "fill"
    /\ UNCHANGED <<eOrder, eSnap, eIdx, trades, eFilled0, eConsumed, nOps,
                   m_tradeCallbacks, delivered, statVars, cbIdx>>
    /\ UNCHANGED <<bookVars, sValid>>
    /\ bookUnchanged

\* fillQuantityAtPrice returns; a fill of 0 goes on with the next entry, any
\* other fill makes the trade and enters notifyTrade
\* (OrderBook.cpp:238-300, MatchingEngine.cpp:88-110, 133-155)
fill_return ==
    /\ epc = "fill"
    /\ \E r \in {fillQuantityAtPrice(Book, opposite(eOrder.side), eSnap[eIdx][1],
                                      Min(getRemainingQty(eOrder), eSnap[eIdx][2]))} :
       LET price == eSnap[eIdx][1]
           matchQty == Min(getRemainingQty(eOrder), eSnap[eIdx][2])
           actualFilled == r[2]
       IN  /\ setBook(r[1])
           /\ eConsumed' = eConsumed + RestingQuantity(Book, opposite(eOrder.side))
                                     - RestingQuantity(r[1], opposite(eOrder.side))
           /\ IF skipsTrade(actualFilled)
              THEN /\ eIdx' = eIdx + 1
                   /\ epc' = "match"
                   /\ UNCHANGED <<eOrder, trades, m_tradeCount, m_totalVolume>>
              ELSE /\ eOrder' = fill(eOrder, applied(matchQty, actualFilled))
                   /\ trades' = Append(trades, NewTrade(eOrder, price, actualFilled))
                   /\ m_tradeCount' = m_tradeCount + 1
                   /\ m_totalVolume' = addVolume(m_totalVolume, actualFilled)
                   /\ epc' = "notify"
                   /\ UNCHANGED eIdx
    /\ b_mutex' = lockAfterFill(b_mutex)
    /\ cbIdx' = 1
    /\ UNCHANGED <<eSnap, eFilled0, nOps, m_tradeCallbacks, delivered,
                   returnedCount, returnedVolume>>
    /\ bookUnchanged

\* notifyTrade invokes the next callback, which calls an OrderBook operation:
\* the operation's lock_guard takes m_mutex (MatchingEngine.cpp:178-182,
\* OrderBook.cpp:85, 178, 307)
callback_lock ==
    /\ epc = "notify"
    /\ cbIdx <= Len(m_tradeCallbacks)
    /\ b_mutex = NoThread
    /\ b_mutex' = EngineThread
    /\ epc' = "callback"
    /\ UNCHANGED <<eOrder, eSnap, eIdx, trades, eFilled0, eConsumed, nOps,
                   m_tradeCallbacks, delivered, statVars, cbIdx>>
    /\ UNCHANGED <<bookVars, sValid>>
    /\ bookUnchanged

\* the books a callback's operation leaves: getBestBid and getTopBids leave
\* the book as it is, cancelOrder cancels an order (OrderBook.cpp:85-101)
callbackBooks(b) == {b} \cup {cancelOrder(b, id)[1] : id \in 1..MaxOps}

\* the callback's operation returns and releases m_mutex, and the callback
\* returns to notifyTrade
callback_return ==
    /\ epc = "callback"
    /\ \E b \in callbackBooks(Book) : setBook(b)
    /\ b_mutex' = NoThread
    /\ delivered' = Append(delivered, <<m_tradeCallbacks[cbIdx], trades[Len(trades)]>>)
    /\ cbIdx' = cbIdx + 1
    /\ epc' = "notify"
    /\ UNCHANGED <<eOrder, eSnap, eIdx, trades, eFilled0, eConsumed, nOps,
                   m_tradeCallbacks, statVars>>
    /\ bookUnchanged

\* notifyTrade's range-for is over: the iteration of the match loop ends
notify_return ==
    /\ epc = "notify"
    /\ cbIdx > Len(m_tradeCallbacks)
    /\ eIdx' = eIdx + 1
    /\ epc' = "match"
    /\ UNCHANGED <<eOrder, eSnap, trades, eFilled0, eConsumed, nOps,
                   m_tradeCallbacks, delivered, statVars, lockVars>>
    /\ UNCHANGED <<bookVars, sValid>>
    /\ bookUnchanged

\* processOrder_finish with addOrder's lock_guard: the remainder is added
\* once m_mutex is free (OrderBook.cpp:64)
finish_locked ==
    /\ restsAfterMatch(eOrder) => b_mutex = NoThread
    /\ processOrder_finish

----------------------------------------------------------------------------
(* Initial states *)

InitOrderVar == order = NewOrder(0, "BUY", "LIMIT", 0, 0)

InitQueueVars ==
    /\ m_queue = <<>>
    /\ m_shutdown = FALSE
    /\ q_mutex = NoThread
    /\ waiters = {}
    /\ pc = [t \in Threads |-> "idle"]
    /\ gotItem = [c \in Consumers |-> FALSE]
    /\ ret = [c \in Consumers |-> None]
    /\ nPushed = [p \in Producers |-> 0]
    /\ pushed = <<>>
    /\ popped = <<>>
    /\ cleared = FALSE
    /\ shutdownDone = FALSE

InitBookVars ==
    /\ m_orderMap = EmptyMap
    /\ m_bids = EmptyMap
    /\ m_asks = EmptyMap
    /\ nOps = 0
    /\ epc = "idle"
    /\ eOrder = NewOrder(0, "BUY", "LIMIT", 0, 0)
    /\ eSnap = <<>>
    /\ eIdx = 1
    /\ trades = <<>>
    /\ eFilled0 = 0
    /\ eConsumed = 0
    /\ m_tradeCallbacks = <<>>
    /\ delivered = <<>>
    /\ b_mutex = NoThread
    /\ cbIdx = 1
    /\ m_tradeCount = 0
    /\ m_totalVolume = 0
    /\ returnedCount = 0
    /\ returnedVolume = 0
    /\ spc = "idle"
    /\ sBid = NoPrice
    /\ sRet = <<>>
    /\ sValid = {}

\* the orders a caller constructs and hands to processOrder
FreshOrders(ids) ==
    {NewOrder(id, side, type, price, quantity) :
        id \in ids, side \in Sides, type \in OrderTypes, price \in Prices,
        quantity \in Quantities}

\* the orders a caller adds to the book directly: resting orders are LIMIT
\* orders (MarketSentiment.h:675, main.cpp:1145)
RestingOrders(ids) == {o \in FreshOrders(ids) : o.type = "LIMIT"}

----------------------------------------------------------------------------
(* SpecOrder *)

\* the Order is constructed with a positive quantity
InitOrder ==
    /\ order \in {NewOrder(1, side, type, price, quantity) :
                     side \in Sides, type \in OrderTypes, price \in Prices,
                     quantity \in 1..MaxOrderQty}
    /\ InitQueueVars
    /\ InitBookVars

NextOrder ==
    \/ \E qty \in 0..MaxOrderQty : Order_fill(qty)
    \/ Order_cancel
    \/ \E newPrice \in Prices : Order_modifyPrice(newPrice)
    \/ \E newQuantity \in 0..MaxOrderQty : Order_modifyQuantity(newQuantity)

SpecOrder == InitOrder /\ [][NextOrder]_vars

----------------------------------------------------------------------------
(* SpecQueue *)

InitQueue == InitOrderVar /\ InitQueueVars /\ InitBookVars

NextQueue ==
    \/ \E p \in Producers : push_locked(p) \/ push_notify(p)
    \/ \E c \in Consumers :
          \/ pop_lock(c) \/ pop_pred(c) \/ pop_wait(c) \/ pop_relock(c) \/ pop_check(c)
          \/ tryPop(c)
          \/ pwt_lock(c) \/ pwt_pred(c) \/ pwt_wait(c) \/ pwt_timeout(c)
          \/ pwt_relock(c) \/ pwt_timeout_pred(c) \/ pwt_check(c)
          \/ spuriousWakeup(c)
    \/ clear_queue
    \/ shutdown_store
    \/ shutdown_notify

SpecQueue == InitQueue /\ [][NextQueue]_vars

\* the steps a consumer takes while it holds m_mutex
lockedSteps(c) ==
    \/ pop_pred(c) \/ pop_wait(c) \/ pop_check(c)
    \/ pwt_pred(c) \/ pwt_wait(c) \/ pwt_timeout_pred(c) \/ pwt_check(c)

\* Scheduling of the consumers: a thread that holds the mutex goes on to
\* release it, a thread that waits for the mutex gets it when it is free
\* again and again, and the deadline of wait_for, which is fixed when the call
\* starts, passes however often the thread is woken before it.
FairQueue ==
    \A c \in Consumers :
        /\ WF_vars(lockedSteps(c))
        /\ SF_vars(pwt_relock(c))
        /\ SF_vars(pwt_timeout(c))

SpecQueueFair == InitQueue /\ [][NextQueue]_vars /\ FairQueue

----------------------------------------------------------------------------
(* SpecPopPush: producers that push and consumers that each call pop() once, *)
(* without shutdown() *)

NextPopPush ==
    \/ \E p \in Producers : push_locked(p) \/ push_notify(p)
    \/ \E c \in Consumers :
          \/ ret[c] = None /\ pop_lock(c)
          \/ pop_pred(c) \/ pop_wait(c) \/ pop_relock(c) \/ pop_check(c)
          \/ spuriousWakeup(c)

\* Scheduling: a producer that left the lock_guard block goes on to
\* notify_one, a consumer that holds the mutex goes on to release it, and a
\* woken consumer gets the mutex when it is free again and again.  Nothing
\* makes a producer push, a consumer call pop() or a wake-up happen without a
\* notification.
FairPopPush ==
    /\ \A p \in Producers : WF_vars(push_notify(p))
    /\ \A c \in Consumers : WF_vars(lockedSteps(c)) /\ SF_vars(pop_relock(c))

SpecPopPush == InitQueue /\ [][NextPopPush]_vars /\ FairPopPush

----------------------------------------------------------------------------
(* SpecBook *)

InitBook == InitOrderVar /\ InitQueueVars /\ InitBookVars

\* the OrderBook operations any thread may call
BookOps(ids) ==
    \/ \E o \in RestingOrders(ids) : Book_addOrder(o)
    \/ \E id \in ids : Book_cancelOrder(id)
    \/ \E id \in ids, newPrice \in Prices : Book_modifyOrderPrice(id, newPrice)
    \/ \E id \in ids, newQuantity \in Quantities : Book_modifyOrderQuantity(id, newQuantity)
    \/ \E side \in Sides, price \in Prices, quantity \in Quantities :
          Book_fillQuantityAtPrice(side, price, quantity)
    \/ Book_clear

NextBook == BookOps(Ids)

SpecBook == InitBook /\ [][NextBook]_vars

----------------------------------------------------------------------------
(* SpecEngine: the book shared by the MatchingEngine thread and the threads *)
(* that call the book directly                                              *)

NextEngine ==
    \/ BookOps(EngineIds)
    \/ \E o \in FreshOrders(EngineIds) : processOrder_begin(o)
    \/ match_level
    \/ processOrder_finish

SpecEngine == InitBook /\ [][NextEngine]_vars

----------------------------------------------------------------------------
(* SpecDeep: processOrder on a book with one level more on one side than    *)
(* the snapshot takes                                                       *)

\* the levels on the deep side
DeepLevels == SnapshotDepth + 1
\* processOrder calls in one run of SpecDeep
DeepCalls == 2

\* the book after addOrder of n LIMIT orders of quantity 1 on one side, ids
\* and prices 1..n: every order is in the index and alone in the level of its
\* price
DeepBook(side, n) ==
    LET levels == [p \in 1..n |-> [price |-> p, orders |-> <<p>>, totalQuantity |-> 1]]
    IN  [orderMap |-> [id \in 1..n |-> NewOrder(id, side, "LIMIT", id, 1)],
         bids |-> IF side = "BUY" THEN levels ELSE EmptyMap,
         asks |-> IF side = "SELL" THEN levels ELSE EmptyMap]

\* the orders handed to processOrder: the quantity exceeds what the deep side
\* holds, and the limit price accepts every level of the other side
DeepOrders ==
    {NewOrder(id, side, type, IF side = "BUY" THEN DeepLevels ELSE 1, DeepLevels + 1) :
        id \in (DeepLevels + 1)..(DeepLevels + 2), side \in Sides, type \in OrderTypes}

InitDeep ==
    /\ InitOrderVar
    /\ InitQueueVars
    /\ \E side \in Sides :
          /\ m_orderMap = DeepBook(side, DeepLevels).orderMap
          /\ m_bids = DeepBook(side, DeepLevels).bids
          /\ m_asks = DeepBook(side, DeepLevels).asks
    /\ nOps = 0
    /\ epc = "idle"
    /\ eOrder = NewOrder(0, "BUY", "LIMIT", 0, 0)
    /\ eSnap = <<>>
    /\ eIdx = 1
    /\ trades = <<>>
    /\ eFilled0 = 0
    /\ eConsumed = 0
    /\ m_tradeCallbacks = <<>>
    /\ delivered = <<>>
    /\ b_mutex = NoThread
    /\ cbIdx = 1
    /\ m_tradeCount = 0
    /\ m_totalVolume = 0
    /\ returnedCount = 0
    /\ returnedVolume = 0
    /\ spc = "idle"
    /\ sBid = NoPrice
    /\ sRet = <<>>
    /\ sValid = {}

NextDeep ==
    \/ \E o \in DeepOrders : nOps < DeepCalls /\ processOrder_begin(o)
    \/ match_level
    \/ processOrder_finish

SpecDeep == InitDeep /\ [][NextDeep]_vars

----------------------------------------------------------------------------
(* SpecSingle: one thread calls processOrder and cancelOrder on a book that *)
(* starts empty; every order has a positive quantity and an id of its own   *)

SingleOrders ==
    {NewOrder(id, side, type, price, quantity) :
        id \in 1..MaxOps, side \in Sides, type \in OrderTypes, price \in Prices,
        quantity \in 1..MaxQty}

NextSingle ==
    \/ \E o \in SingleOrders : o.id = nOps + 1 /\ processOrder_begin(o)
    \/ match_level
    \/ processOrder_finish
    \/ \E id \in 1..MaxOps : epc = "idle" /\ Book_cancelOrder(id)

SpecSingle == InitBook /\ [][NextSingle]_vars

----------------------------------------------------------------------------
(* SpecReentrant: one thread calls processOrder, and the registered         *)
(* callbacks call OrderBook operations from inside it                       *)

\* processOrder calls in one run of SpecReentrant
ReentrantCalls == 3

\* the steps of the thread inside processOrder
EngineSteps ==
    \/ fill_lock
    \/ fill_return
    \/ callback_lock
    \/ callback_return
    \/ notify_return
    \/ finish_locked

NextReentrant ==
    \/ \E cb \in CallbackIds : onTrade(cb)
    \/ \E o \in SingleOrders :
          nOps < ReentrantCalls /\ o.id = nOps + 1 /\ processOrder_begin(o)
    \/ EngineSteps

\* the thread inside processOrder keeps running
FairReentrant == WF_vars(EngineSteps)

SpecReentrant == InitBook /\ [][NextReentrant]_vars /\ FairReentrant

----------------------------------------------------------------------------
(* SpecCallbacks: callbacks are registered between processOrder calls on a   *)
(* book that other callers add orders to                                    *)

NextCallbacks ==
    \/ \E cb \in CallbackIds : onTrade(cb)
    \/ \E o \in RestingOrders(EngineIds) : Book_addOrder(o)
    \/ \E o \in FreshOrders(EngineIds) : processOrder_begin(o)
    \/ match_level
    \/ processOrder_finish

SpecCallbacks == InitBook /\ [][NextCallbacks]_vars

----------------------------------------------------------------------------
(* SpecSpread: the book shared by a thread that calls getSpread and the     *)
(* threads that change the book                                             *)

NextSpread ==
    \/ BookOps(EngineIds)
    \/ getSpread_bid
    \/ getSpread_ask
    \/ getSpread_return

SpecSpread == InitBook /\ [][NextSpread]_vars

----------------------------------------------------------------------------
(* Claims about OrderQueue (SpecQueue) *)

\* C1: once a shutdown() call has returned, no consumer is blocked inside
\* pop(): every pop() that overlaps shutdown() gets to see the flag and
\* returns.  A consumer found blocked in such a state stays blocked for ever
\* when no push, no further shutdown() and no spurious wake-up follows.
C1_NoConsumerBlockedAfterShutdown ==
    shutdownDone => \A c \in Consumers : pc[c] # "pop_blocked"

\* a sequence holds no element twice
NoDuplicates(seq) == \A i, j \in 1..Len(seq) : seq[i] = seq[j] => i = j

\* C2: as long as clear() has not run, the orders that entered the queue are
\* exactly the orders that left it followed by the orders still queued, in
\* the same order, no order left twice, and size() is the number of pushes
\* minus the number of successful pops.
C2_FifoExactlyOnce ==
    ~cleared =>
        /\ pushed = popped \o m_queue
        /\ NoDuplicates(popped)
        /\ size = Len(pushed) - Len(popped)

\* C2 witness: both consumers have returned an order, a different one each,
\* and clear() has not run
C2_Witness ==
    /\ ~cleared
    /\ Len(popped) = 2
    /\ \E c, d \in Consumers :
          /\ c # d
          /\ ret[c] = popped[1]
          /\ ret[d] = popped[2]
          /\ pc[c] = "idle" /\ pc[d] = "idle"

----------------------------------------------------------------------------
(* Claims about OrderBook and MatchingEngine (SpecBook, SpecEngine) *)

\* the step is a fill: a fillQuantityAtPrice call, direct or from processOrder
FillStep ==
    \/ \E side \in Sides, price \in Prices, quantity \in Quantities :
          Book_fillQuantityAtPrice(side, price, quantity)
    \/ match_level

\* the step changed the order or removed it
Touched(id) == id \notin DOMAIN m_orderMap' \/ m_orderMap'[id] # m_orderMap[id]

\* in the level, every order ahead of a touched order has left the book
FifoRespected(level) ==
    \A j \in 1..Len(level.orders) :
        Touched(level.orders[j]) =>
            \A i \in 1..(j - 1) : level.orders[i] \notin DOMAIN m_orderMap'

\* C3: in every fill step and every price level, an order is touched (filled
\* or removed) only when every order ahead of it in the level's FIFO has been
\* filled to zero and removed; so the orders behind a partially filled order
\* are not touched.
C3_FifoWithinLevel ==
    [][FillStep =>
          /\ \A p \in DOMAIN m_bids : FifoRespected(m_bids[p])
          /\ \A p \in DOMAIN m_asks : FifoRespected(m_asks[p])]_vars

\* C3 witness: processOrder has filled at a level whose front order is now
\* partially filled and whose second order has no fill
C3_Witness ==
    /\ epc = "match"
    /\ Len(trades) = 1
    /\ trades[1].price \in DOMAIN sideOf(Book, opposite(eOrder.side))
    /\ LET ids == sideOf(Book, opposite(eOrder.side))[trades[1].price].orders
        IN  /\ Len(ids) >= 2
            /\ Deref(m_orderMap, ids[1]).status = "PARTIAL"
            /\ Deref(m_orderMap, ids[2]).filledQty = 0
            /\ getRemainingQty(Deref(m_orderMap, ids[2])) > 0

\* C4: whenever processOrder fills at a level, none of the better-priced
\* levels of its snapshot still holds resting quantity: the levels are
\* consumed best price first, each one fully before the next is touched.
C4_PricePriority ==
    [][(match_level /\ Len(trades') > Len(trades)) =>
          LET side == opposite(eOrder.side)
              levels == sideOf(Book, side)
          IN  \A k \in 1..(eIdx - 1) :
                  eSnap[k][1] \in DOMAIN levels =>
                      SumRemaining(m_orderMap, levels[eSnap[k][1]].orders) = 0]_vars

\* C5: all along a processOrder call, the quantities of the trades produced
\* so far add up to the increase of the incoming order's filled quantity and
\* to the resting quantity the call has taken off the opposing side.
C5_FillAccounting ==
    epc = "match" =>
        /\ SumTrades(trades) = eOrder.filledQty - eFilled0
        /\ SumTrades(trades) = eConsumed

\* C5 witness: a processOrder call that has produced two trades and is about
\* to return
C5_Witness == epc = "match" /\ Len(trades) = 2 /\ ~loopContinues

\* C6: at every side and price, the cached total getQuantityAtPrice returns is
\* the sum of the remaining quantities of the orders held by that level, and
\* 0 where there is no level.
C6_CachedTotal ==
    \A side \in Sides : \A price \in Prices :
        getQuantityAtPrice(Book, side, price) =
            IF price \in DOMAIN sideOf(Book, side)
            THEN SumRemaining(m_orderMap, sideOf(Book, side)[price].orders)
            ELSE 0

\* the number of places the id takes in the lists of all price levels
Occurrences(id) ==
    Cardinality({<<side, p, i>> \in Sides \X Prices \X (1..(2 * MaxId)) :
                    /\ p \in DOMAIN sideOf(Book, side)
                    /\ i <= Len(sideOf(Book, side)[p].orders)
                    /\ sideOf(Book, side)[p].orders[i] = id})

\* C7: every order held in a price level is in the id index, and every active
\* order of the id index is held exactly once, in the level of its own side
\* and price.
C7_IndexMatchesLevels ==
    /\ \A side \in Sides : \A p \in DOMAIN sideOf(Book, side) :
           \A i \in 1..Len(sideOf(Book, side)[p].orders) :
               sideOf(Book, side)[p].orders[i] \in DOMAIN m_orderMap
    /\ \A id \in DOMAIN m_orderMap :
           isActive(m_orderMap[id]) =>
               /\ Occurrences(id) = 1
               /\ m_orderMap[id].price \in DOMAIN sideOf(Book, m_orderMap[id].side)
               /\ IndexOf(sideOf(Book, m_orderMap[id].side)[m_orderMap[id].price].orders,
                          id) # 0

----------------------------------------------------------------------------
(* Claims about Order (SpecOrder) *)

\* C8: the filled quantity of an Order stays between 0 and its quantity, and
\* no call decreases it.
C8_FilledWithinQuantity ==
    /\ [](0 <= order.filledQty /\ order.filledQty <= order.quantity)
    /\ [][order'.filledQty >= order.filledQty]_vars

\* C8 witness: a partially filled order
C8_Witness ==
    /\ order.status = "PARTIAL"
    /\ order.filledQty > 0
    /\ order.filledQty < order.quantity

\* C9: the status of an Order is FILLED exactly when its filled quantity
\* equals its quantity.
C9_FilledIffComplete ==
    order.status = "FILLED" <=> order.filledQty = order.quantity

\* C10: once the status is FILLED or CANCELLED, no call changes the status,
\* the filled quantity, the quantity or the price.
C10_TerminalStatus ==
    [][order.status \in {"FILLED", "CANCELLED"} =>
          /\ order'.status = order.status
          /\ order'.filledQty = order.filledQty
          /\ order'.quantity = order.quantity
          /\ order'.price = order.price]_vars

----------------------------------------------------------------------------
(* Claims about the OrderBook operations (SpecBook, SpecEngine) *)

\* C11: for every order whose id the book does not hold, addOrder followed at
\* once by cancelOrder of that id leaves getBidLevelCount, getAskLevelCount and
\* getTotalOrderCount as they were before the add.
C11_AddCancelRoundTrip ==
    \A o \in RestingOrders(Ids) :
        o.id \notin DOMAIN m_orderMap =>
            LET b1 == addOrder(Book, o)[1]
                b2 == cancelOrder(b1, o.id)[1]
            IN  /\ getBidLevelCount(b2) = getBidLevelCount(Book)
                /\ getAskLevelCount(b2) = getAskLevelCount(Book)
                /\ getTotalOrderCount(b2) = getTotalOrderCount(Book)

\* C12: cancelOrder of an unknown or inactive id returns false and leaves the
\* book as it is; cancelOrder of an active order returns true, takes the order
\* out of every price level, marks it CANCELLED and keeps it in the id index,
\* so that addOrder with its id still fails; and no step other than clear()
\* changes, fills or removes a CANCELLED order of the index.
C12_CancelOrder ==
    [][/\ \A id \in EngineIds :
              Book_cancelOrder(id) =>
                  IF id \in DOMAIN m_orderMap /\ isActive(m_orderMap[id])
                  THEN /\ cancelOrder(Book, id)[2]
                       /\ getOrder(Book, id)' = [m_orderMap[id] EXCEPT !.status = "CANCELLED"]
                       /\ Occurrences(id)' = 0
                       /\ \A o \in FreshOrders({id}) : ~addOrder(Book, o)[2]'
                  ELSE /\ ~cancelOrder(Book, id)[2]
                       /\ UNCHANGED bookVars
       /\ \A id \in DOMAIN m_orderMap :
              m_orderMap[id].status = "CANCELLED" =>
                  \/ Book_clear
                  \/ /\ getOrder(Book, id)' = m_orderMap[id]
                     /\ Occurrences(id)' = 0]_vars

\* C12 witness: processOrder has filled at the price level a CANCELLED order
\* of the index belonged to, and that order has no fill
C12_Witness ==
    /\ epc = "match"
    /\ Len(trades) = 1
    /\ \E id \in DOMAIN m_orderMap :
          /\ m_orderMap[id].status = "CANCELLED"
          /\ m_orderMap[id].side = opposite(eOrder.side)
          /\ m_orderMap[id].price = trades[1].price
          /\ m_orderMap[id].filledQty = 0
          /\ m_orderMap[id].quantity > 0
          /\ trades[1].quantity < eOrder.quantity

\* the book after the step
BookNext == [orderMap |-> m_orderMap', bids |-> m_bids', asks |-> m_asks']

\* C13: when modifyOrderPrice returns for an active order, the order is held
\* exactly once, in the level of its side at newPrice when the call returned
\* true and at its former price when it returned false, nothing else of the
\* order has changed, and cached totals that matched their levels before the
\* call match them after it.  The call is one step under the book mutex, so
\* no other thread sees the book between the removal and the reinsertion.
C13_ModifyPriceKeepsOrder ==
    [][\A id \in Ids, newPrice \in Prices :
          (/\ Book_modifyOrderPrice(id, newPrice)
           /\ id \in DOMAIN m_orderMap
           /\ isActive(m_orderMap[id])) =>
              LET o == m_orderMap[id]
                  at == IF modifyOrderPrice(Book, id, newPrice)[2] THEN newPrice ELSE o.price
              IN  /\ getOrder(BookNext, id) = [o EXCEPT !.price = at]
                  /\ Occurrences(id)' = 1
                  /\ at \in DOMAIN sideOf(BookNext, o.side)
                  /\ IndexOf(sideOf(BookNext, o.side)[at].orders, id) # 0
                  /\ C6_CachedTotal => C6_CachedTotal']_vars

\* C13 witness: a partially filled order rests behind an order without fills:
\* modifyOrderPrice refused to move it and put it back in its level
C13_Witness ==
    \E side \in Sides : \E p \in DOMAIN sideOf(Book, side) :
        LET ids == sideOf(Book, side)[p].orders
        IN  /\ Len(ids) = 2
            /\ m_orderMap[ids[1]].status = "NEW"
            /\ getRemainingQty(m_orderMap[ids[1]]) > 0
            /\ m_orderMap[ids[2]].status = "PARTIAL"
            /\ m_orderMap[ids[2]].price = p

\* C14: modifyOrderQuantity of an unknown or inactive id, or below the filled
\* quantity, returns false and leaves the book as it is; otherwise it returns
\* true, sets the order's quantity, changes the cached total of the level that
\* holds the order by the change of the order's remaining quantity, and leaves
\* every other order, every list and every other level as they were.
C14_ModifyQuantity ==
    [][\A id \in Ids, newQuantity \in Quantities :
          Book_modifyOrderQuantity(id, newQuantity) =>
              IF \/ id \notin DOMAIN m_orderMap
                 \/ ~isActive(getOrder(Book, id))
                 \/ newQuantity < getOrder(Book, id).filledQty
              THEN /\ ~modifyOrderQuantity(Book, id, newQuantity)[2]
                   /\ UNCHANGED bookVars
              ELSE LET o == m_orderMap[id]
                       delta == (newQuantity - o.filledQty) - getRemainingQty(o)
                   IN  /\ modifyOrderQuantity(Book, id, newQuantity)[2]
                       /\ DOMAIN m_orderMap' = DOMAIN m_orderMap
                       /\ [getOrder(BookNext, id) EXCEPT !.status = o.status]
                             = [o EXCEPT !.quantity = newQuantity]
                       /\ \A other \in DOMAIN m_orderMap \ {id} :
                              getOrder(BookNext, other) = m_orderMap[other]
                       /\ \A side \in Sides :
                              /\ DOMAIN sideOf(BookNext, side) = DOMAIN sideOf(Book, side)
                              /\ \A p \in DOMAIN sideOf(Book, side) :
                                     LET old == sideOf(Book, side)[p]
                                         new == sideOf(BookNext, side)[p]
                                     IN  /\ new.orders = old.orders
                                         /\ new.totalQuantity =
                                               old.totalQuantity +
                                               (IF IndexOf(old.orders, id) # 0
                                                THEN delta ELSE 0)]_vars

\* C15: addOrder with an id the index holds returns false and leaves the book
\* as it is; otherwise it returns true, puts the order in the index and at
\* the back of the list of the level of its side and price, a new level when
\* there was none, adds its quantity to that level's total, and leaves every
\* other level as it was.
C15_AddOrder ==
    [][\A o \in RestingOrders(Ids) :
          Book_addOrder(o) =>
              IF o.id \in DOMAIN m_orderMap
              THEN /\ ~addOrder(Book, o)[2]
                   /\ UNCHANGED bookVars
              ELSE LET levels == sideOf(Book, o.side)
                       levelsNext == sideOf(BookNext, o.side)
                       before == IF o.price \in DOMAIN levels THEN levels[o.price]
                                 ELSE [price |-> o.price, totalQuantity |-> 0,
                                       orders |-> <<>>]
                   IN  /\ addOrder(Book, o)[2]
                       /\ DOMAIN m_orderMap' = DOMAIN m_orderMap \cup {o.id}
                       /\ getOrder(BookNext, o.id) = o
                       /\ \A other \in DOMAIN m_orderMap :
                              getOrder(BookNext, other) = m_orderMap[other]
                       /\ sideOf(BookNext, opposite(o.side)) = sideOf(Book, opposite(o.side))
                       /\ DOMAIN levelsNext = DOMAIN levels \cup {o.price}
                       /\ \A p \in DOMAIN levels \ {o.price} : levelsNext[p] = levels[p]
                       /\ levelsNext[o.price].orders = Append(before.orders, o.id)
                       /\ levelsNext[o.price].totalQuantity =
                             before.totalQuantity + o.quantity]_vars

\* C15 witness: two addOrder calls have put two orders in one level, the
\* first one in front
C15_Witness ==
    /\ nOps = 2
    /\ \E side \in Sides : \E p \in DOMAIN sideOf(Book, side) :
          /\ Len(sideOf(Book, side)[p].orders) = 2
          /\ sideOf(Book, side)[p].totalQuantity = 3

\* C16: the value getSpread returns is the spread of one book state of the
\* call's duration: best ask minus best bid of that state, or none when a side
\* of that state is empty.
C16_SpreadFromOneState == spc = "done" => sRet \in sValid

----------------------------------------------------------------------------
(* Claims about MatchingEngine::processOrder (SpecEngine) *)

\* the price is one the order may trade at
acceptable(o, price) ==
    \/ o.type = "MARKET"
    \/ IF o.side = "BUY" THEN price <= o.price ELSE price >= o.price

\* C17: every trade of a LIMIT buy is at or below its limit price and every
\* trade of a LIMIT sell at or above it; when the matching loop ends, every
\* snapshot level it went through was at an acceptable price, and it ends
\* because the order is filled, the snapshot is exhausted or, for a LIMIT
\* order only, the next level's price is not acceptable.
C17_LimitProtection ==
    /\ [](epc = "match" =>
             \A i \in 1..Len(trades) : acceptable(eOrder, trades[i].price))
    /\ [][processOrder_finish =>
             /\ \A k \in 1..(eIdx - 1) : acceptable(eOrder, eSnap[k][1])
             /\ \/ getRemainingQty(eOrder) = 0
                \/ eIdx > Len(eSnap)
                \/ /\ eOrder.type = "LIMIT"
                   /\ ~acceptable(eOrder, eSnap[eIdx][1])]_vars

\* C17 witness: a LIMIT order has traded at one level and stops, unfilled, in
\* front of a level whose price is not acceptable
C17_Witness ==
    /\ epc = "match"
    /\ eOrder.type = "LIMIT"
    /\ Len(trades) = 1
    /\ getRemainingQty(eOrder) > 0
    /\ eIdx <= Len(eSnap)
    /\ ~acceptable(eOrder, eSnap[eIdx][1])

\* the number of places the id takes in the lists of all price levels of b
OccurrencesIn(b, id) ==
    Cardinality({<<side, p, i>> \in Sides \X Prices \X (1..(2 * MaxId)) :
                    /\ p \in DOMAIN sideOf(b, side)
                    /\ i <= Len(sideOf(b, side)[p].orders)
                    /\ sideOf(b, side)[p].orders[i] = id})

\* when processOrder returns, the order rests in the book: the index holds it
\* as it is after matching, it is once in the lists, at the back of the level
\* of its side and price, and that level's total has grown by its remaining
\* quantity
RestsAtReturn ==
    LET levels == sideOf(Book, eOrder.side)
        levelsNext == sideOf(BookNext, eOrder.side)
        before == IF eOrder.price \in DOMAIN levels THEN levels[eOrder.price].totalQuantity
                  ELSE 0
    IN  /\ getOrder(BookNext, eOrder.id) = eOrder
        /\ OccurrencesIn(BookNext, eOrder.id) = 1
        /\ eOrder.price \in DOMAIN levelsNext
        /\ levelsNext[eOrder.price].orders[Len(levelsNext[eOrder.price].orders)] = eOrder.id
        /\ levelsNext[eOrder.price].totalQuantity = before + getRemainingQty(eOrder)

C19_MarketNeverRests ==
    [][/\ ((match_level \/ processOrder_finish) /\ eOrder.type = "MARKET") =>
              /\ sideOf(BookNext, eOrder.side) = sideOf(Book, eOrder.side)
              /\ DOMAIN m_orderMap' \subseteq DOMAIN m_orderMap
              /\ \A id \in DOMAIN m_orderMap :
                     m_orderMap[id].side = eOrder.side =>
                         getOrder(BookNext, id) = m_orderMap[id]
              /\ processOrder_finish => UNCHANGED bookVars
       /\ (epc = "match" /\ eOrder.type = "MARKET" /\ eSnap = <<>>) =>
              /\ ~match_level
              /\ trades = <<>>]_vars

\* C19 witness: a MARKET order has traded, keeps a remainder and is about to
\* return, while orders rest on its own side
C19_Witness ==
    /\ epc = "match"
    /\ ~loopContinues
    /\ eOrder.type = "MARKET"
    /\ Len(trades) = 1
    /\ getRemainingQty(eOrder) > 0
    /\ DOMAIN sideOf(Book, eOrder.side) # {}

\* the remaining quantity the orders of the level at that side and price hold
RestingAt(b, side, price) ==
    IF price \in DOMAIN sideOf(b, side)
    THEN SumRemaining(b.orderMap, sideOf(b, side)[price].orders)
    ELSE 0

\* C20: an iteration of the matching loop that takes quantity off its level
\* appends one trade, with the incoming order's id on its own side, 0 on the
\* other side, the level's price and the whole quantity taken off that level;
\* an iteration that takes nothing appends none; so the trades of a call are
\* at distinct prices.
C20_OneTradePerLevel ==
    /\ [][match_level =>
             LET price == eSnap[eIdx][1]
                 side == opposite(eOrder.side)
                 taken == RestingAt(Book, side, price) - RestingAt(BookNext, side, price)
             IN  IF taken > 0
                 THEN trades' = Append(trades,
                          [buyOrderId |-> IF eOrder.side = "BUY" THEN eOrder.id ELSE 0,
                           sellOrderId |-> IF eOrder.side = "SELL" THEN eOrder.id ELSE 0,
                           price |-> price, quantity |-> taken])
                 ELSE trades' = trades]_vars
    /\ [](\A i, j \in 1..Len(trades) : trades[i].price = trades[j].price => i = j)

\* C20 witness: one trade of quantity 2 for a level whose first order was
\* consumed and whose second order is now partially filled
C20_Witness ==
    /\ epc = "match"
    /\ Len(trades) = 1
    /\ trades[1].quantity = 2
    /\ trades[1].price \in DOMAIN sideOf(Book, opposite(eOrder.side))
    /\ LET ids == sideOf(Book, opposite(eOrder.side))[trades[1].price].orders
       IN  /\ ids # <<>>
           /\ getOrder(Book, ids[1]).status = "PARTIAL"
           /\ getOrder(Book, ids[1]).filledQty = 1

----------------------------------------------------------------------------
(* Claims about Order::fill, the order status and the best prices *)

\* C30: Order::fill(qty) with qty above the remaining quantity returns false
\* and leaves the order as it is; otherwise it returns true, raises the filled
\* quantity by qty and sets the status to FILLED when the filled quantity has
\* reached the quantity, else to PARTIAL when it is positive, else leaves it.
C30_Fill ==
    [][\A qty \in 0..MaxOrderQty :
          Order_fill(qty) =>
              IF qty > order.quantity - order.filledQty
              THEN /\ ~fillOk(order, qty)
                   /\ order' = order
              ELSE /\ fillOk(order, qty)
                   /\ order'.filledQty = order.filledQty + qty
                   /\ order'.status =
                         IF order.filledQty + qty = order.quantity THEN "FILLED"
                         ELSE IF order.filledQty + qty > 0 THEN "PARTIAL"
                         ELSE order.status
                   /\ [order' EXCEPT !.filledQty = order.filledQty,
                                     !.status = order.status] = order]_vars

\* C30 witness: an order of quantity 2 or more that fill calls have filled
\* completely
C30_Witness ==
    /\ order.status = "FILLED"
    /\ order.quantity >= 2
    /\ order.filledQty = order.quantity

\* C29: an active order without fills that a price level holds has status
\* OPEN.
C29_RestingIsOpen ==
    \A side \in Sides : \A p \in DOMAIN sideOf(Book, side) :
        \A i \in 1..Len(sideOf(Book, side)[p].orders) :
            LET o == getOrder(Book, sideOf(Book, side)[p].orders[i])
            IN  (isActive(o) /\ o.filledQty = 0) => o.status = "OPEN"

\* the prices of the side at which a level holds an active order
RestingPrices(b, side) ==
    {p \in DOMAIN sideOf(b, side) :
        \E i \in 1..Len(sideOf(b, side)[p].orders) :
            isActive(getOrder(b, sideOf(b, side)[p].orders[i]))}

\* C26: getBestBid is the highest price at which an active bid order rests
\* and getBestAsk the lowest price at which an active ask order rests, and
\* each is none exactly when no active order rests on its side.
C26_BestPrices ==
    /\ getBestBid(Book) =
          IF RestingPrices(Book, "BUY") = {} THEN NoPrice
          ELSE CHOOSE p \in RestingPrices(Book, "BUY") :
                   \A q \in RestingPrices(Book, "BUY") : q <= p
    /\ getBestAsk(Book) =
          IF RestingPrices(Book, "SELL") = {} THEN NoPrice
          ELSE CHOOSE p \in RestingPrices(Book, "SELL") :
                   \A q \in RestingPrices(Book, "SELL") : q >= p

HeldPrices(b, side) ==
    {p \in DOMAIN sideOf(b, side) :
        \E id \in DOMAIN b.orderMap : IndexOf(sideOf(b, side)[p].orders, id) # 0}

\* C28: no price level is without orders, every level is filed under its own
\* price, and the level counts are the numbers of distinct prices that hold at
\* least one order.
C28_NoEmptyLevel ==
    /\ \A side \in Sides : \A p \in DOMAIN sideOf(Book, side) :
           /\ sideOf(Book, side)[p].orders # <<>>
           /\ sideOf(Book, side)[p].price = p
    /\ getBidLevelCount(Book) = Cardinality(HeldPrices(Book, "BUY"))
    /\ getAskLevelCount(Book) = Cardinality(HeldPrices(Book, "SELL"))

\* C28 witness: an order was cancelled, its level went with it, and another
\* level is left on its side
C28_Witness ==
    \E id \in DOMAIN m_orderMap :
        /\ m_orderMap[id].status = "CANCELLED"
        /\ m_orderMap[id].quantity > 0
        /\ m_orderMap[id].filledQty = 0
        /\ m_orderMap[id].price \notin DOMAIN sideOf(Book, m_orderMap[id].side)
        /\ DOMAIN sideOf(Book, m_orderMap[id].side) # {}

----------------------------------------------------------------------------
(* Claims about pop, popWithTimeout and shutdown (SpecQueue) *)

\* C22: pop() returns none only when the shutdown flag is set and the queue
\* is empty; whenever orders are queued at its return, before or after
\* shutdown(), it returns the front order and takes it off the queue.
C22_PopNoneOnlyWhenDrained ==
    [][\A c \in Consumers :
          pop_check(c) =>
              /\ ret'[c] = None <=> (isShutdown /\ m_queue = <<>>)
              /\ m_queue # <<>> =>
                    /\ ret'[c] = Head(m_queue)
                    /\ m_queue' = Tail(m_queue)
              /\ ret'[c] # Garbage]_vars

\* C22 witness: after shutdown() has returned, an order pushed later is
\* queued and a pop() is about to return
C22_Witness ==
    \E c \in Consumers :
        /\ shutdownDone
        /\ pc[Controller] = "idle"
        /\ pc[c] = "pop_check"
        /\ m_queue # <<>>
        /\ pushed # <<>>
        /\ popped = <<>>

\* C25: once shutdown() has stored the flag, isShutdown() stays true whatever
\* operation follows, and a later shutdown() call changes neither the flag nor
\* the queued orders.
C25_ShutdownSticky ==
    /\ [](shutdownDone => isShutdown)
    /\ [][isShutdown => isShutdown']_vars
    /\ [][((shutdown_store \/ shutdown_notify) /\ shutdownDone)
            => UNCHANGED <<m_queue, m_shutdown>>]_vars

\* C25 witness: a second shutdown() is in progress after clear() and a push
C25_Witness ==
    /\ shutdownDone
    /\ pc[Controller] = "shutdown_notify"
    /\ cleared
    /\ m_queue # <<>>

\* the positions of a thread inside popWithTimeout
PwtStates ==
    {"pwt_pred", "pwt_wait", "pwt_blocked", "pwt_relock", "pwt_relock_timeout",
     "pwt_timeout_pred", "pwt_check"}

\* C24: every popWithTimeout call returns; when it returns none the queue is
\* empty at that moment, and when an order is queued at that moment it
\* returns the front order and takes it off the queue.
C24_PopWithTimeoutReturns ==
    /\ \A c \in Consumers : (pc[c] \in PwtStates) ~> (pc[c] = "idle")
    /\ [][\A c \in Consumers :
             pwt_check(c) =>
                 /\ ret'[c] = None => m_queue = <<>>
                 /\ m_queue # <<>> =>
                       /\ ret'[c] = Head(m_queue)
                       /\ m_queue' = Tail(m_queue)
                 /\ ret'[c] # Garbage]_vars

\* C24 witness: the timeout has passed, and an order arrived before the call
\* got the mutex back
C24_Witness ==
    \E c \in Consumers :
        /\ pc[c] = "pwt_timeout_pred"
        /\ m_queue # <<>>
        /\ ~m_shutdown

----------------------------------------------------------------------------
(* Claims about push and blocked consumers (SpecPopPush) *)

\* C23: when a consumer is blocked in pop() while an order is queued, some
\* consumer goes on to return with an order; and once as many orders were
\* pushed as there are consumers and every consumer has called pop(), every
\* consumer returns with an order.
C23_NoLostWakeup ==
    /\ \A n \in 0..MaxPush :
           ((\E c \in Consumers : pc[c] = "pop_blocked")
               /\ m_queue # <<>> /\ Len(popped) = n)
           ~> (Len(popped) > n)
    /\ (Len(pushed) = NumConsumers
          /\ \A c \in Consumers : pc[c] # "idle" \/ ret[c] # None)
       ~> (\A c \in Consumers : pc[c] = "idle" /\ ret[c] # None)

\* C23 witness: every consumer is blocked in pop() and the first order has
\* just been queued, its notify_one still to come
C23_Witness ==
    /\ \A c \in Consumers : pc[c] = "pop_blocked"
    /\ waiters = Consumers
    /\ Len(m_queue) = 1
    /\ \E p \in Producers : pc[p] = "push_notify"

----------------------------------------------------------------------------
(* Claims about trade callbacks (SpecCallbacks) *)

\* the invocations due for the trades: trade by trade, and for every trade
\* callback by callback in registration order
Expand(ts, callbacks) ==
    [k \in 1..(Len(ts) * Len(callbacks)) |->
        <<callbacks[((k - 1) % Len(callbacks)) + 1],
          ts[((k - 1) \div Len(callbacks)) + 1]>>]

\* C21: at every point of a processOrder call the callback invocations made
\* so far are, for each trade produced so far in the order of production,
\* one invocation of every registered callback in registration order; the
\* return makes no further invocation, and registering a callback invokes
\* nothing.
C21_CallbacksSynchronousOrdered ==
    /\ [](epc # "idle" => delivered = Expand(trades, m_tradeCallbacks))
    /\ [][processOrder_finish => delivered' = delivered]_vars
    /\ [][\A cb \in CallbackIds : onTrade(cb) => delivered' = delivered]_vars

\* C21 witness: a call has produced two trades with two different callbacks
\* registered
C21_Witness ==
    /\ epc = "match"
    /\ Len(trades) = 2
    /\ Len(m_tradeCallbacks) = 2
    /\ m_tradeCallbacks[1] # m_tradeCallbacks[2]
    /\ Len(delivered) = 4

----------------------------------------------------------------------------
(* Claims about fillQuantityAtPrice, the statistics and the snapshots *)

\* C31: fillQuantityAtPrice(side, price, qty) on a side without a level at
\* the price returns 0 and leaves the book as it is.  With a level it returns
\* the smaller of qty and the remaining quantity of the level's orders, the
\* level's total goes down by the returned amount, every order of the level
\* either stays in the level and the index with a remaining quantity or has
\* left both, and the level is gone exactly when nothing remains in it.
C31_FillQuantityAtPrice ==
    [][\A side \in Sides, price \in Prices, qty \in Quantities :
          Book_fillQuantityAtPrice(side, price, qty) =>
              LET levels == sideOf(Book, side)
                  filled == fillQuantityAtPrice(Book, side, price, qty)[2]
              IN  IF price \notin DOMAIN levels
                  THEN filled = 0 /\ UNCHANGED bookVars
                  ELSE /\ filled = Min(qty, SumRemaining(m_orderMap, levels[price].orders))
                       /\ getQuantityAtPrice(BookNext, side, price)
                             = levels[price].totalQuantity - filled
                       /\ \A i \in 1..Len(levels[price].orders) :
                             LET id == levels[price].orders[i]
                             IN  \/ /\ id \notin DOMAIN m_orderMap'
                                    /\ OccurrencesIn(BookNext, id) = 0
                                 \/ /\ id \in DOMAIN m_orderMap'
                                    /\ getRemainingQty(m_orderMap'[id]) > 0
                                    /\ price \in DOMAIN sideOf(BookNext, side)
                                    /\ IndexOf(sideOf(BookNext, side)[price].orders, id) # 0
                       /\ price \notin DOMAIN sideOf(BookNext, side)
                             <=> levels[price].totalQuantity - filled = 0]_vars

\* C32: between processOrder calls getTradeCount() is the number of trades
\* the calls have returned and getTotalVolume() the sum of their quantities,
\* and within a call they are ahead by the trades produced so far; both are
\* 0 on a new engine, and a call that returns no trade leaves both as they
\* were when it began.
C32_Statistics ==
    /\ m_tradeCount = returnedCount + (IF epc = "idle" THEN 0 ELSE Len(trades))
    /\ m_totalVolume = returnedVolume + (IF epc = "idle" THEN 0 ELSE SumTrades(trades))
    /\ (returnedCount = 0 /\ epc = "idle") => (m_tradeCount = 0 /\ m_totalVolume = 0)

\* C32 witness: a call has returned one trade of quantity 2, and a later call
\* is about to return without a trade
C32_Witness ==
    /\ returnedCount = 1
    /\ returnedVolume = 2
    /\ epc = "match"
    /\ trades = <<>>
    /\ ~loopContinues

\* the depths asked of getTopBids / getTopAsks
Depths == 0..(MaxPrice + 1)

\* the snapshot lists the n best levels of the side, or all of them when the
\* side has fewer, best first, each with its level's total
TopOf(snap, b, side, n) ==
    /\ Len(snap) = Min(n, Cardinality(DOMAIN sideOf(b, side)))
    /\ \A i \in 1..Len(snap) :
           /\ snap[i][1] \in DOMAIN sideOf(b, side)
           /\ snap[i][2] = getQuantityAtPrice(b, side, snap[i][1])
    /\ \A i, j \in 1..Len(snap) :
           i < j => IF side = "BUY" THEN snap[i][1] > snap[j][1]
                                   ELSE snap[i][1] < snap[j][1]
    /\ \A i \in 1..Len(snap) : \A p \in DOMAIN sideOf(b, side) :
           (\A j \in 1..Len(snap) : snap[j][1] # p) =>
               IF side = "BUY" THEN p < snap[i][1] ELSE p > snap[i][1]
    /\ snap # <<>> =>
           snap[1][1] = IF side = "BUY" THEN getBestBid(b) ELSE getBestAsk(b)

\* C33: getTopBids(n) returns min(n, number of bid levels) pairs of price and
\* level total in strictly descending price order from the best bid, and
\* getTopAsks(n) min(n, number of ask levels) pairs in strictly ascending
\* price order from the best ask.
C33_TopLevels ==
    \A n \in Depths :
        /\ TopOf(getTopBids(Book, n), Book, "BUY", n)
        /\ TopOf(getTopAsks(Book, n), Book, "SELL", n)
        /\ Len(getTopBids(Book, n)) = Min(n, getBidLevelCount(Book))
        /\ Len(getTopAsks(Book, n)) = Min(n, getAskLevelCount(Book))

\* C33 witness: the bid side has two levels with different totals and the
\* ask side has one, so a depth of 1 cuts the bid snapshot and a depth of 3
\* exceeds both sides
C33_Witness ==
    /\ getBidLevelCount(Book) = 2
    /\ getAskLevelCount(Book) = 1
    /\ getTopBids(Book, 1) # getTopBids(Book, 2)
    /\ getTopBids(Book, 3)[1][2] # getTopBids(Book, 3)[2][2]
    /\ getTopAsks(Book, 3)[1][2] > 0

----------------------------------------------------------------------------
(* Claims about processOrder under concurrent changes of the book *)

\* C34: when the level of the snapshot entry processOrder has come to is no
\* longer in the book, the iteration applies nothing to the incoming order,
\* produces no trade, leaves the book as it is and goes on to the next entry;
\* no iteration changes a cancelled order; and all along the call the
\* quantity filled on the incoming order is the quantity taken off the book.
C34_EmptiedLevelSkipped ==
    /\ [][match_level =>
            /\ eSnap[eIdx][1] \notin DOMAIN sideOf(Book, opposite(eOrder.side)) =>
                  /\ eOrder' = eOrder
                  /\ trades' = trades
                  /\ UNCHANGED bookVars
                  /\ eIdx' = eIdx + 1
                  /\ epc' = "match"
            /\ \A id \in DOMAIN m_orderMap :
                  m_orderMap[id].status = "CANCELLED" =>
                      /\ id \in DOMAIN m_orderMap'
                      /\ m_orderMap'[id] = m_orderMap[id]]_vars
    /\ [](epc # "idle" => eOrder.filledQty - eFilled0 = eConsumed)

\* C34 witness: the order that made up the level of the entry processOrder
\* has come to was cancelled after the snapshot, the level is gone, and the
\* snapshot holds a further entry whose level is still in the book
C34_Witness ==
    /\ epc = "match"
    /\ loopContinues
    /\ eIdx < Len(eSnap)
    /\ eSnap[eIdx][1] \notin DOMAIN sideOf(Book, opposite(eOrder.side))
    /\ eSnap[eIdx + 1][1] \in DOMAIN sideOf(Book, opposite(eOrder.side))
    /\ \E id \in DOMAIN m_orderMap :
           /\ m_orderMap[id].status = "CANCELLED"
           /\ m_orderMap[id].side = opposite(eOrder.side)
           /\ m_orderMap[id].price = eSnap[eIdx][1]
           /\ m_orderMap[id].quantity > 0

----------------------------------------------------------------------------
(* Claims about the depth of the snapshot (SpecDeep) *)

\* C35: the snapshot of a processOrder call has at most 100 entries; an
\* iteration of the match loop leaves every level outside the snapshot as it
\* is; and the return leaves the opposing side as it is and adds the
\* remainder of a LIMIT order, under an id the index does not hold, at the
\* back of the level of its side and price.
C35_SnapshotCap ==
    /\ [](Len(eSnap) <= SnapshotDepth)
    /\ [][match_level =>
            \A p \in DOMAIN sideOf(Book, opposite(eOrder.side)) :
                (\A k \in 1..Len(eSnap) : eSnap[k][1] # p) =>
                    /\ p \in DOMAIN sideOf(BookNext, opposite(eOrder.side))
                    /\ sideOf(BookNext, opposite(eOrder.side))[p]
                          = sideOf(Book, opposite(eOrder.side))[p]]_vars
    /\ [][processOrder_finish =>
            /\ sideOf(BookNext, opposite(eOrder.side))
                  = sideOf(Book, opposite(eOrder.side))
            /\ (/\ getRemainingQty(eOrder) > 0
                /\ eOrder.type = "LIMIT"
                /\ eOrder.id \notin DOMAIN m_orderMap) =>
                  /\ eOrder.id \in DOMAIN m_orderMap'
                  /\ m_orderMap'[eOrder.id] = eOrder
                  /\ eOrder.price \in DOMAIN sideOf(BookNext, eOrder.side)
                  /\ LET l == sideOf(BookNext, eOrder.side)[eOrder.price].orders
                     IN  l[Len(l)] = eOrder.id]_vars

\* C35 witness: a LIMIT order has traded with all 100 levels of its snapshot,
\* has quantity left, and a level at an acceptable price is still in the book
C35_Witness ==
    /\ epc = "match"
    /\ Len(eSnap) = SnapshotDepth
    /\ eIdx = SnapshotDepth + 1
    /\ Len(trades) = SnapshotDepth
    /\ eOrder.type = "LIMIT"
    /\ getRemainingQty(eOrder) > 0
    /\ \E p \in DOMAIN sideOf(Book, opposite(eOrder.side)) :
           /\ acceptable(eOrder, p)
           /\ sideOf(Book, opposite(eOrder.side))[p].totalQuantity > 0

----------------------------------------------------------------------------
(* Claims about the frame of modifyOrderPrice and the orders held in levels *)

\* C36: a modifyOrderPrice call that returns false leaves the index and both
\* sides of the book exactly as they were, the order's place in the list of
\* its level included.
C36_FailedModifyPriceKeepsBook ==
    [][\A id \in Ids, newPrice \in Prices :
          (Book_modifyOrderPrice(id, newPrice)
              /\ ~modifyOrderPrice(Book, id, newPrice)[2])
          => UNCHANGED bookVars]_vars

\* C37: between OrderBook operations every order a level holds is in the
\* index, active and with remaining quantity above 0, and every level's total
\* is above 0.
C37_LevelsHoldLiveOrders ==
    \A side \in Sides : \A p \in DOMAIN sideOf(Book, side) :
        /\ sideOf(Book, side)[p].totalQuantity > 0
        /\ \A i \in 1..Len(sideOf(Book, side)[p].orders) :
               LET id == sideOf(Book, side)[p].orders[i]
               IN  /\ id \in DOMAIN m_orderMap
                   /\ isActive(m_orderMap[id])
                   /\ getRemainingQty(m_orderMap[id]) > 0

----------------------------------------------------------------------------
(* Claims about a book fed by one thread through processOrder (SpecSingle) *)

\* C38: after every processOrder and cancelOrder call of the single thread,
\* one side of the book is empty or getBestBid() is below getBestAsk().
C38_NeverCrossed ==
    epc = "idle" =>
        \/ getBestBid(Book) = NoPrice
        \/ getBestAsk(Book) = NoPrice
        \/ getBestBid(Book) < getBestAsk(Book)

\* C38 witness: a call has traded, and orders rest on both sides
C38_Witness ==
    /\ epc = "idle"
    /\ returnedCount > 0
    /\ getBestBid(Book) # NoPrice
    /\ getBestAsk(Book) # NoPrice

----------------------------------------------------------------------------
\* the quantity fillQuantityAtPrice returns to the iteration about to run
ActualFillNow ==
    fillQuantityAtPrice(Book, opposite(eOrder.side), eSnap[eIdx][1],
                        Min(getRemainingQty(eOrder), eSnap[eIdx][2]))[2]

\* C40: every trade in the vector processOrder is building, and every trade a
\* callback was invoked with, has a quantity above 0; an iteration whose
\* actual fill is 0 leaves the trades vector, the callback invocations, the
\* trade count and the total volume as they were; and the trade count only
\* changes in a step that appends a trade of positive quantity and adds that
\* quantity to the total volume
C40_TradesArePositive ==
    /\ [](\A i \in 1..Len(trades) : trades[i].quantity > 0)
    /\ [](\A i \in 1..Len(delivered) : delivered[i][2].quantity > 0)
    /\ [][match_level /\ ActualFillNow = 0
             => UNCHANGED <<trades, delivered, m_tradeCount, m_totalVolume>>]_vars
    /\ [][m_tradeCount' # m_tradeCount
             => /\ Len(trades') = Len(trades) + 1
                /\ trades'[Len(trades')].quantity > 0
                /\ m_tradeCount' = m_tradeCount + 1
                /\ m_totalVolume' =
                      (m_totalVolume + trades'[Len(trades')].quantity) % QtyModulus]_vars

\* the first snapshotted level of a call gave an actual fill of 0 with a
\* callback registered, and a later level of the same call gave a trade
C40_Witness ==
    /\ epc = "match"
    /\ m_tradeCallbacks # <<>>
    /\ eIdx > Len(trades) + 1
    /\ trades # <<>>
    /\ delivered # <<>>
----------------------------------------------------------------------------
\* C39: whenever notifyTrade is about to invoke a callback, or has invoked
\* them all, OrderBook::m_mutex is held by no thread; a callback whose
\* OrderBook operation has taken the mutex returns to notifyTrade; and a
\* processOrder call that has begun returns
C39_CallbacksRunUnlocked ==
    /\ [](epc = "notify" => b_mutex = NoThread)
    /\ (epc = "callback") ~> (epc = "notify")
    /\ (epc # "idle") ~> (epc = "idle")

\* a callback's cancelOrder, called from inside processOrder, has cancelled a
\* resting order and returned to notifyTrade
C39_Witness ==
    /\ epc = "notify"
    /\ delivered # <<>>
    /\ \E id \in DOMAIN m_orderMap : m_orderMap[id].status = "CANCELLED"
====
